---- MODULE Spec2Model ----
(***************************************************************************)
(* Typed views of CUDA device memory (modules/cuda/src/buffer.ts): the     *)
(* MemoryView base class, its eleven per-dtype subclasses, the allocator   *)
(* hook, and the element get/set traps installed on the prototype chain.   *)
(*                                                                         *)
(* Numbers that the code derives from `length` may be fractional           *)
(* (length = byteLength / BYTES_PER_ELEMENT), so every element index that  *)
(* flows out of `length` is carried multiplied by BYTES_PER_ELEMENT, as a  *)
(* whole number of bytes; a view's length is byteLength / BPE(dtype).      *)
(***************************************************************************)
EXTENDS Integers, Sequences, FiniteSets, TLC

\* ------------------------------------------------------------------------
\* Bounds of the model
\* ------------------------------------------------------------------------
MaxLen == 2

\* the number of API calls a run makes
MaxCalls == 3

\* JS values handed to the API as element values
Values == {1, -1}

\* what a byte of freshly allocated (uninitialised) device memory may hold
Garbage == {0, 255}

\* ------------------------------------------------------------------------
\* Dtypes and host typed arrays
\* ------------------------------------------------------------------------
DtypeTags ==
  {"Int8Array", "Int16Array", "Int32Array", "Uint8Array", "Uint8ClampedArray",
   "Uint16Array", "Uint32Array", "Float32Array", "Float64Array",
   "BigInt64Array", "BigUint64Array"}

\* the name of a typed array that is none of the eleven: a subclass of
\* Uint8Array, which a view class of the program's own is bound to
ForeignTag == "Uint8ArraySubclass"

BYTES_PER_ELEMENT(dt) ==
  CASE dt \in {"Int8Array", "Uint8Array", "Uint8ClampedArray", ForeignTag} -> 1
    [] dt \in {"Int16Array", "Uint16Array"} -> 2
    [] dt \in {"Int32Array", "Uint32Array", "Float32Array"} -> 4
    [] dt \in {"Float64Array", "BigInt64Array", "BigUint64Array"} -> 8

SignedInts == {"Int8Array", "Int16Array", "Int32Array", "BigInt64Array"}

UnsignedInts == {"Uint8Array", "Uint16Array", "Uint32Array", "BigUint64Array", ForeignTag}

Min(a, b) == IF a < b THEN a ELSE b

Max(a, b) == IF a > b THEN a ELSE b

Pow2(k) == 2 ^ k

Pow256(k) == 256 ^ k

\* byte k (0 = least significant) of a natural number below 2^31
ByteOfNat(u, k) == IF k > 3 THEN 0 ELSE (u \div Pow256(k)) % 256

\* byte k of the two's complement representation of x, of any width
TwosByte(x, k) == IF x >= 0 THEN ByteOfNat(x, k) ELSE 255 - ByteOfNat(-x - 1, k)

\* little-endian two's complement of x truncated to w bytes (integer wrap-around)
IntBytes(x, w) == [k \in 1..w |-> TwosByte(x, k - 1)]

\* floor(log2(m)) for 1 <= m < 2^24
Log2(m) == CHOOSE e \in 0..23 : Pow2(e) <= m /\ m < 2 * Pow2(e)

Abs(x) == IF x < 0 THEN -x ELSE x

\* IEEE-754 binary32 of an integer |x| < 2^24, little-endian
Float32Bytes(x) ==
  IF x = 0 THEN <<0, 0, 0, 0>>
  ELSE LET m    == Abs(x)
           e    == Log2(m)
           word == (e + 127) * Pow2(23) + (m - Pow2(e)) * Pow2(23 - e)
           b    == IntBytes(word, 4)
       IN  [b EXCEPT ![4] = @ + (IF x < 0 THEN 128 ELSE 0)]

\* IEEE-754 binary64 of an integer |x| < 2^20, little-endian
Float64Bytes(x) ==
  IF x = 0 THEN <<0, 0, 0, 0, 0, 0, 0, 0>>
  ELSE LET m  == Abs(x)
           e  == Log2(m)
           hi == (e + 1023) * Pow2(20) + (m - Pow2(e)) * Pow2(20 - e)
           b  == IntBytes(hi, 4)
       IN  <<0, 0, 0, 0, b[1], b[2], b[3], b[4] + (IF x < 0 THEN 128 ELSE 0)>>

\* the bytes a host typed array of dtype dt stores for the JS value x
ToBytes(dt, x) ==
  CASE dt = "Uint8ClampedArray" -> <<Max(0, Min(255, x))>>
    [] dt = "Float32Array" -> Float32Bytes(x)
    [] dt = "Float64Array" -> Float64Bytes(x)
    [] OTHER -> IntBytes(x, BYTES_PER_ELEMENT(dt))

\* JS values: a number, a value too wide for the model's integers (kept as
\* its bytes), or undefined
Num(x) == [num |-> x]

Raw(bs) == [raw |-> bs]

Undefined == [undefined |-> TRUE]

\* the unsigned value of the low (up to four) bytes, when below 2^31
LowNat(bs) ==
  LET w == Min(Len(bs), 4)
      F[k \in 0..w] == IF k = 0 THEN 0 ELSE F[k - 1] + bs[k] * Pow256(k - 1)
  IN  F[w]

FitsNat(bs) ==
  /\ \A k \in 5..Len(bs) : bs[k] = 0
  /\ Len(bs) >= 4 => bs[4] < 128

Complement(bs) == [k \in 1..Len(bs) |-> 255 - bs[k]]

DecodeFloat(word, expBias, fracBits, neg) ==
  LET e    == (word \div Pow2(fracBits)) - expBias
      frac == word % Pow2(fracBits)
  IN  IF word = 0 THEN Num(0)
      ELSE IF e >= 0 /\ e <= fracBits /\ frac % Pow2(fracBits - e) = 0
           THEN Num((IF neg THEN -1 ELSE 1) * (Pow2(e) + frac \div Pow2(fracBits - e)))
           ELSE Undefined

\* the JS value a host typed array of dtype dt reads from the bytes bs
FromBytes(dt, bs) ==
  CASE dt \in UnsignedInts \cup {"Uint8ClampedArray"} ->
         IF FitsNat(bs) THEN Num(LowNat(bs)) ELSE Raw(bs)
    [] dt \in SignedInts ->
         IF bs[Len(bs)] < 128
         THEN IF FitsNat(bs) THEN Num(LowNat(bs)) ELSE Raw(bs)
         ELSE IF FitsNat(Complement(bs)) THEN Num(-1 - LowNat(Complement(bs)))
              ELSE Raw(bs)
    [] dt = "Float32Array" ->
         LET neg  == bs[4] >= 128
             mag  == [bs EXCEPT ![4] = @ % 128]
             v    == DecodeFloat(LowNat(mag), 127, 23, neg)
         IN  IF v = Undefined THEN Raw(bs) ELSE v
    [] dt = "Float64Array" ->
         LET neg  == bs[8] >= 128
             hi   == <<bs[5], bs[6], bs[7], bs[8] % 128>>
             v    == DecodeFloat(LowNat(hi), 1023, 20, neg)
         IN  IF bs[1] + bs[2] + bs[3] + bs[4] = 0 /\ v # Undefined THEN v ELSE Raw(bs)

\* x survives a store into, and a load from, a typed array of dtype dt
Representable(dt, x) == FromBytes(dt, ToBytes(dt, x)) = Num(x)

\* ------------------------------------------------------------------------
\* Optional arguments: {} is an omitted argument, {x} the argument x
\* ------------------------------------------------------------------------
Omitted == {}

Arg(x) == {x}

Only(a) == CHOOSE x \in a : TRUE

Scaled(a, k) == {x * k : x \in a}

\* ------------------------------------------------------------------------
\* Collaborators of buffer.ts whose code is outside the source tree
\* ------------------------------------------------------------------------
\* util.clampSliceArgs(len, lhs = 0, rhs = len): the window [start, end)
clampSliceArgs(len, lhs, rhs) ==
  LET l0 == IF lhs = Omitted THEN 0 ELSE Only(lhs)
      r0 == IF rhs = Omitted THEN len ELSE Only(rhs)
      l1 == IF l0 < 0 THEN len + l0 ELSE l0
      r1 == IF r0 < 0 THEN len + r0 ELSE r0
      l2 == Max(0, Min(len, l1))
      r2 == Max(0, Min(len, r1))
  IN  <<l2, Max(l2, r2)>>

\* A device memory handle: its bytes, byteLength being their number, and the
\* bytes its allocation holds
Handle(bytes) == [bytes |-> bytes, capacity |-> Len(bytes)]

byteLengthOf(m, h) == Len(m[h].bytes)

capacityOf(m, h) == m[h].capacity

isEmpty(m, h) == byteLengthOf(m, h) = 0

\* The module-level allocator hook, `let allocateMemory`: an allocator is
\* named by the kind of memory it constructs, DeviceMemory being the default
VARIABLE allocator

Allocators == {"DeviceMemory", "ManagedMemory", "PinnedMemory"}

\* one call of the allocator hook
AllocCall(byteLength) == [by |-> allocator, byteLength |-> byteLength]

\* allocateMemory(byteLength): freshly allocated bytes are uninitialised, g
\* is what they happen to hold
allocateMemory(m, byteLength, g) ==
  Append(m, [kind |-> allocator] @@ Handle([k \in 1..byteLength |-> g]))

\* Memory.prototype.slice(begin, end): a new handle of the same kind holding
\* bytes [begin, end)
MemorySlice(m, h, begin, end) ==
  LET w == clampSliceArgs(byteLengthOf(m, h), Arg(begin), Arg(end))
  IN  Append(m, [kind |-> m[h].kind] @@ Handle(SubSeq(m[h].bytes, w[1] + 1, w[2])))

\* What a copy does when it is handed a range the allocation does not hold,
\* or overlapping ranges of one allocation: it raises, or it copies what it
\* can (snapshot: as if through a temporary; forward: byte by byte)
UBOutcomes == {"error", "snapshot", "forward"}

ReadDev(bytes, off, n, g) ==
  [k \in 1..n |-> IF off + k <= Len(bytes) THEN bytes[off + k] ELSE g]

WriteDev(bytes, off, src, n) ==
  [k \in 1..Len(bytes) |-> IF k > off /\ k <= off + n THEN src[k - off] ELSE bytes[k]]

ForwardCopy(bytes, doff, soff, n, g) ==
  LET F[k \in 0..n] ==
        IF k = 0 THEN bytes
        ELSE LET b == F[k - 1]
                 x == IF soff + k <= Len(b) THEN b[soff + k] ELSE g
             IN  [j \in 1..Len(b) |-> IF j = doff + k THEN x ELSE b[j]]
  IN  F[n]

DevPtr(h, off) == [space |-> "device", h |-> h, off |-> off]

HostPtr == [space |-> "host"]

CopyCall(dst, src, n) == [dst |-> dst, src |-> src, n |-> n]

Overlap(doff, soff, n) == n > 0 /\ doff < soff + n /\ soff < doff + n

\* cudaMemcpy(device h + off, host src, n); ub: the call was undefined
cudaMemcpyHtoD(m, h, off, src, n, ub) ==
  LET oob == off + n > byteLengthOf(m, h)
  IN  IF oob /\ ub = "error"
      THEN [mem |-> m, error |-> TRUE, ub |-> TRUE]
      ELSE [mem |-> [m EXCEPT ![h].bytes = WriteDev(@, off, src, n)], error |-> FALSE,
            ub |-> oob]

\* cudaMemcpy(host target, device h + off, n): the target's bytes afterwards
cudaMemcpyDtoH(m, target, h, off, n, g, ub) ==
  LET oob == off + n > byteLengthOf(m, h)
  IN  IF oob /\ ub = "error"
      THEN [out |-> target, error |-> TRUE, ub |-> TRUE]
      ELSE [out |-> WriteDev(target, 0, ReadDev(m[h].bytes, off, n, g), n),
            error |-> FALSE, ub |-> oob]

\* cudaMemcpy(device dh + doff, device sh + soff, n)
cudaMemcpyDtoD(m, dh, doff, sh, soff, n, g, ub) ==
  LET oob  == doff + n > byteLengthOf(m, dh) \/ soff + n > byteLengthOf(m, sh)
      over == dh = sh /\ Overlap(doff, soff, n)
  IN  IF oob /\ ub = "error"
      THEN [mem |-> m, error |-> TRUE, ub |-> TRUE]
      ELSE IF over /\ ub = "forward"
           THEN [mem |-> [m EXCEPT ![dh].bytes = ForwardCopy(@, doff, soff, n, g)],
                 error |-> FALSE, ub |-> TRUE]
           ELSE [mem |-> [m EXCEPT ![dh].bytes =
                            WriteDev(@, doff, ReadDev(m[sh].bytes, soff, n, g), n)],
                 error |-> FALSE, ub |-> oob \/ over]

\* ------------------------------------------------------------------------
\* Sources handed to a constructor or to set
\* ------------------------------------------------------------------------
NumberSource(n) == [kind |-> "number", n |-> n]

ViewSource(v) == [kind |-> "view", view |-> v]

MemorySource(h) == [kind |-> "memory", h |-> h]

ArrayBufferSource(bytes) == [kind |-> "ArrayBuffer", bytes |-> bytes]

TypedArraySource(bytes) == [kind |-> "TypedArray", bytes |-> bytes]

IterableSource(xs) == [kind |-> "iterable", values |-> xs]

ArrayLikeSource(xs) == [kind |-> "arrayLike", values |-> xs]

\* a plain object {buffer, byteOffset, byteLength}, h being the handle its
\* chain of buffer properties ends in
ObjectSource(h, byteOffset, byteLength) ==
  [kind |-> "object", h |-> h, byteOffset |-> byteOffset, byteLength |-> byteLength]

\* an object that is none of the above and lacks buffer, byteOffset or
\* byteLength, such as {}
UnknownSource == [kind |-> "unknown"]

\* undefined (also what a missing argument is), null, a boolean, a symbol:
\* no object, so `'buffer' in source` has no right-hand side to search
PrimitiveSource == [kind |-> "primitive"]

RECURSIVE Flatten(_)
Flatten(ss) == IF ss = <<>> THEN <<>> ELSE Head(ss) \o Flatten(Tail(ss))

\* new TypedArray(values).buffer / TypedArray.from(values).buffer
HostBytes(dt, xs) == Flatten([k \in 1..Len(xs) |-> ToBytes(dt, xs[k])])

\* the elements of a host typed array of dtype dt over the bytes bs
HostElements(dt, bs) ==
  LET w == BYTES_PER_ELEMENT(dt)
  IN  [k \in 1..(Len(bs) \div w) |-> FromBytes(dt, SubSeq(bs, (k - 1) * w + 1, k * w))]

NoEffects == [allocs |-> <<>>, copies |-> <<>>, slices |-> <<>>]

\* asMemoryNumber taking the length for the byte length
asMemoryNumberUnscaled(m, n, dt, g) ==
  [mem |-> allocateMemory(m, n, g), buffer |-> Len(m) + 1, byteLength |-> n,
   byteOffset |-> 0, allocs |-> <<AllocCall(n)>>, copies |-> <<>>, slices |-> <<>>]

\* asMemory, a number: allocateMemory(source * BYTES_PER_ELEMENT)
asMemoryNumber(m, n, dt, g) ==
  [mem |-> allocateMemory(m, n * BYTES_PER_ELEMENT(dt), g), buffer |-> Len(m) + 1,
   byteLength |-> n * BYTES_PER_ELEMENT(dt), byteOffset |-> 0,
   allocs |-> <<AllocCall(n * BYTES_PER_ELEMENT(dt))>>, copies |-> <<>>, slices |-> <<>>]

\* asMemory, a MemoryView: source.buffer.slice(source.byteOffset, byteLength)
asMemoryOfView(m, view) ==
  [mem |-> MemorySlice(m, view.buffer, view.byteOffset, view.byteLength),
   buffer |-> Len(m) + 1, byteLength |-> view.byteLength, byteOffset |-> 0,
   allocs |-> <<>>, copies |-> <<>>,
   slices |-> <<[h |-> view.buffer, begin |-> view.byteOffset, end |-> view.byteLength]>>]

\* asMemoryHost without its cudaMemcpy
asMemoryHostNoCopy(m, bytes, g) ==
  [mem |-> allocateMemory(m, Len(bytes), g),
   buffer |-> Len(m) + 1, byteLength |-> Len(bytes), byteOffset |-> 0,
   allocs |-> <<AllocCall(Len(bytes))>>,
   copies |-> <<CopyCall(DevPtr(Len(m) + 1, 0), HostPtr, Len(bytes))>>,
   slices |-> <<>>]

\* asMemoryHost constructing DeviceMemory itself instead of calling the hook
asMemoryHostDirect(m, bytes, g) ==
  [mem |-> cudaMemcpyHtoD(Append(m, [kind |-> "DeviceMemory"] @@
                                    Handle([k \in 1..Len(bytes) |-> g])),
                          Len(m) + 1, 0, bytes, Len(bytes), "error").mem,
   buffer |-> Len(m) + 1, byteLength |-> Len(bytes), byteOffset |-> 0,
   allocs |-> <<[by |-> "DeviceMemory", byteLength |-> Len(bytes)]>>,
   copies |-> <<CopyCall(DevPtr(Len(m) + 1, 0), HostPtr, Len(bytes))>>,
   slices |-> <<>>]

\* asMemory, host bytes (an ArrayBuffer, an ArrayBufferView, or the buffer of
\* the typed array made of an iterable or an array-like): allocateMemory
\* then cudaMemcpy of all of them
asMemoryHost(m, bytes, g) ==
  [mem |-> cudaMemcpyHtoD(allocateMemory(m, Len(bytes), g), Len(m) + 1, 0, bytes,
                          Len(bytes), "error").mem,
   buffer |-> Len(m) + 1, byteLength |-> Len(bytes), byteOffset |-> 0,
   allocs |-> <<AllocCall(Len(bytes))>>,
   copies |-> <<CopyCall(DevPtr(Len(m) + 1, 0), HostPtr, Len(bytes))>>,
   slices |-> <<>>]

\* asMemory(source, TypedArray): the handle, byte length and byte offset a
\* new view starts from, with the memory afterwards and the calls made
asMemory(m, source, dt, g) ==
  CASE source.kind = "number" -> asMemoryNumber(m, source.n, dt, g)
    [] source.kind = "view" -> asMemoryOfView(m, source.view)
    [] source.kind = "memory" ->
         [mem |-> m, buffer |-> source.h, byteLength |-> byteLengthOf(m, source.h),
          byteOffset |-> 0, allocs |-> <<>>, copies |-> <<>>, slices |-> <<>>]
    [] source.kind \in {"ArrayBuffer", "TypedArray"} -> asMemoryHost(m, source.bytes, g)
    [] source.kind \in {"iterable", "arrayLike"} ->
         asMemoryHost(m, HostBytes(dt, source.values), g)
    [] source.kind = "object" ->
         [mem |-> m, buffer |-> source.h, byteLength |-> source.byteLength,
          byteOffset |-> source.byteOffset, allocs |-> <<>>, copies |-> <<>>,
          slices |-> <<>>]
    [] source.kind = "primitive" ->
         [mem |-> m, buffer |-> 0, byteLength |-> 0, byteOffset |-> 0, allocs |-> <<>>,
          copies |-> <<>>, slices |-> <<>>, thrown |-> "TypeError"]
    [] OTHER ->
         [mem |-> allocateMemory(m, 0, g), buffer |-> Len(m) + 1, byteLength |-> 0,
          byteOffset |-> 0, allocs |-> <<AllocCall(0)>>, copies |-> <<>>, slices |-> <<>>]

\* what a call threw before it reached a copy, "none" when nothing
Thrown(eff) == IF "thrown" \in DOMAIN eff THEN eff.thrown ELSE "none"

\* A number argument is {x}; {} is an argument that unary plus turns into
\* NaN (undefined, a string that is no numeral, a plain object)
NaN == {}

NumberArgs(S) == {NaN} \cup {Arg(x) : x \in S}

\* +x || 0, without Math.max
NonNegativeOrZeroUnclamped(x) == IF x = NaN THEN 0 ELSE Only(x)

\* Math.max(+x, 0) || 0: Math.max gives NaN for NaN, and NaN || 0 is 0
NonNegativeOrZero(x) ==
  LET m == IF x = NaN THEN NaN ELSE Arg(Max(Only(x), 0))
  IN  IF m = NaN \/ m = Arg(0) THEN 0 ELSE Only(m)

NoOwn == <<>>

\* A view is a record: buffer is the index of its handle in mem, own its
\* own indexed properties; its length is byteLength / BYTES_PER_ELEMENT(dtype)

BPE(v) == BYTES_PER_ELEMENT(v.dtype)

\* the fields the constructor assigns after Object.assign(this, asMemory(..)),
\* r being what asMemory gave
Constructed(r, dt, args) ==
  [mem    |-> r.mem,
   view   |-> [buffer     |-> r.buffer,
               byteOffset |-> IF Len(args) >= 2 THEN NonNegativeOrZero(args[2])
                              ELSE r.byteOffset,
               byteLength |-> IF Len(args) = 3 THEN NonNegativeOrZero(args[3])
                              ELSE r.byteLength,
               dtype      |-> dt,
               own        |-> NoOwn],
   allocs |-> r.allocs,
   copies |-> r.copies,
   slices |-> r.slices,
   thrown |-> Thrown(r)]

\* MemoryView constructor; args holds the arguments given, args[2] and
\* args[3] as number arguments, args[3] (length) multiplied by
\* BYTES_PER_ELEMENT
MemoryViewCtor(m, dt, args, g) ==
  Constructed(asMemory(m, IF args = <<>> THEN PrimitiveSource ELSE args[1], dt, g), dt, args)

\* ------------------------------------------------------------------------
\* MemoryView methods.  Each gives the memory afterwards, the allocator,
\* handle-slice and copy calls it made, and whether a copy raised.
\* Start, end and begin arguments are optional and already multiplied by
\* BYTES_PER_ELEMENT.
\* ------------------------------------------------------------------------
\* subarray constructing the base class, MemoryView.prototype[Symbol.species],
\* whose typed array is Uint8ClampedArray
SubarrayOfBaseSpecies(v, w) ==
  [buffer     |-> v.buffer,
   byteOffset |-> NonNegativeOrZero(Arg(v.byteOffset + w[1])),
   byteLength |-> NonNegativeOrZero(Arg(w[2] - w[1])),
   dtype      |-> "Uint8ClampedArray",
   own        |-> NoOwn]

\* new this.constructor(this.buffer, this.byteOffset + begin * BPE, end - begin),
\* w being the clamped [begin, end]
SubarrayOf(v, w) ==
  [buffer     |-> v.buffer,
   byteOffset |-> NonNegativeOrZero(Arg(v.byteOffset + w[1])),
   byteLength |-> NonNegativeOrZero(Arg(w[2] - w[1])),
   dtype      |-> v.dtype,
   own        |-> NoOwn]

\* subarray handing its arguments on without clamp
subarrayUnclamped(m, v, begin, end) ==
  SubarrayOf(v, <<IF begin = Omitted THEN 0 ELSE Only(begin),
                  IF end = Omitted THEN v.byteLength ELSE Only(end)>>)

\* subarray(begin, end): a view of the same handle; nothing else changes
subarray(m, v, begin, end) == SubarrayOf(v, clampSliceArgs(v.byteLength, begin, end))

\* asMemoryView constructing a view for any TypedArray.name
asMemoryViewAnyDtype(m, source, dt, g) ==
  IF source.kind = "view"
  THEN [mem |-> m, view |-> source.view, allocs |-> <<>>, copies |-> <<>>, slices |-> <<>>]
  ELSE MemoryViewCtor(m, dt, <<source>>, g)

\* asMemoryView(source, TypedArray): a view is used as it is, anything else
\* becomes a new view of the class the switch on TypedArray.name selects;
\* a name that is none of the eleven falls out of the switch
asMemoryView(m, source, dt, g) ==
  IF source.kind = "view"
  THEN [mem |-> m, view |-> source.view, allocs |-> <<>>, copies |-> <<>>, slices |-> <<>>]
  ELSE IF dt \in DtypeTags
  THEN MemoryViewCtor(m, dt, <<source>>, g)
  ELSE NoEffects @@
       [mem |-> m, thrown |-> "Unknown dtype",
        view |-> [buffer |-> 0, byteOffset |-> 0, byteLength |-> 0, dtype |-> dt,
                  own |-> NoOwn]]

\* cudaMemcpy(this.subarray(offset), source, size): dst is the subarray, src
\* what asMemoryView gave, unless it threw.  A view built for a host source
\* is unreachable once set returns, so its handle is not kept.
setCopy(m, array, src, dst, size, g, ub) ==
  LET c == cudaMemcpyDtoD(src.mem, dst.buffer, dst.byteOffset,
                          src.view.buffer, src.view.byteOffset, size, g, ub)
  IN  IF Thrown(src) # "none"
      THEN [mem |-> m, error |-> TRUE, ub |-> FALSE, allocs |-> src.allocs,
            slices |-> src.slices, copies |-> src.copies, thrown |-> Thrown(src)]
      ELSE [mem    |-> SubSeq(c.mem, 1, Len(m)),
            error  |-> c.error,
            ub     |-> c.ub,
            allocs |-> src.allocs,
            slices |-> src.slices,
            copies |-> Append(src.copies,
                              CopyCall(DevPtr(dst.buffer, dst.byteOffset),
                                       IF array.kind \in {"view", "memory"}
                                       THEN DevPtr(src.view.buffer, src.view.byteOffset)
                                       ELSE DevPtr(0, src.view.byteOffset),
                                       size))]

\* the body of set after [offset, size] = clamp(this.length, start) = w and
\* source = asMemoryView(array, this.TypedArray) = src
setFrom(m, v, array, w, src, g, ub) ==
  setCopy(m, array, src, SubarrayOf(v, clampSliceArgs(v.byteLength, Arg(w[1]), Omitted)),
          Min(w[2], src.view.byteLength), g, ub)

\* set(array, start)
set(m, v, array, start, g, ub) ==
  setFrom(m, v, array, clampSliceArgs(v.byteLength, start, Omitted),
          asMemoryView(m, array, v.dtype, g), g, ub)

\* new TypedArray(n).fill(value), n a number of bytes: ToIndex drops a fraction
FilledArray(dt, n, value) ==
  HostBytes(dt, [k \in 1..(n \div BYTES_PER_ELEMENT(dt)) |-> value])

\* this.set(new this.TypedArray(end - start).fill(value), start), w being
\* the clamped [start, end]
fillFrom(m, v, value, w, g, ub) ==
  set(m, v, TypedArraySource(FilledArray(v.dtype, w[2] - w[1], value)), Arg(w[1]), g, ub)

\* fill(value, start, end)
fill(m, v, value, start, end, g, ub) ==
  fillFrom(m, v, value, clampSliceArgs(v.byteLength, start, end), g, ub)

\* new this.constructor(this.buffer.slice(byteOffset + start * BPE,
\* byteOffset + end * BPE)), w being the clamped [start, end]
sliceFrom(m, v, w) ==
  [slices |-> <<[h |-> v.buffer, begin |-> v.byteOffset + w[1], end |-> v.byteOffset + w[2]]>>,
   allocs |-> <<>>, copies |-> <<>>] @@
  MemoryViewCtor(MemorySlice(m, v.buffer, v.byteOffset + w[1], v.byteOffset + w[2]),
                 v.dtype, <<MemorySource(Len(m) + 1)>>, 0)

\* slice(start, end): a view of a new handle that buffer.slice returns
slice(m, v, start, end) == sliceFrom(m, v, clampSliceArgs(v.byteLength, start, end))

ViewTarget(j, t) == [kind |-> "view", j |-> j, view |-> t]

ArrayBufferTarget(bytes) == [kind |-> "ArrayBuffer", bytes |-> bytes]

TypedArrayTarget(bytes) == [kind |-> "TypedArray", bytes |-> bytes]

\* cudaMemcpy(target, source, size) into host memory; out is the target's
\* bytes afterwards
copyToHost(m, target, src, size, g, ub) ==
  LET c == cudaMemcpyDtoH(m, target.bytes, src.buffer, src.byteOffset, size, g, ub)
  IN  [mem |-> m, out |-> c.out, error |-> c.error, ub |-> c.ub,
       allocs |-> <<>>, slices |-> <<>>,
       copies |-> <<CopyCall(HostPtr, DevPtr(src.buffer, src.byteOffset), size)>>]

\* the typed-array branch of copyInto after [offset, size] = clamp(this.length,
\* start) = w
copyIntoArray(m, v, target, w, g, ub) ==
  copyToHost(m, target, SubarrayOf(v, clampSliceArgs(v.byteLength, Arg(w[1]), Omitted)),
             Min(w[2], Len(target.bytes)), g, ub)

\* copyInto(target, start)
copyInto(m, v, target, start, g, ub) ==
  CASE target.kind = "view" ->
         [out |-> <<>>] @@ set(m, target.view, ViewSource(v), start, g, ub)
    [] target.kind = "ArrayBuffer" ->
         copyToHost(m, target, v, Min(v.byteLength, Len(target.bytes)), g, ub)
    [] target.kind = "TypedArray" ->
         copyIntoArray(m, v, target, clampSliceArgs(v.byteLength, start, Omitted), g, ub)

\* new this.TypedArray(this.length): zeroed, a fractional length truncated
NewTypedArray(dt, n) == [k \in 1..((n \div BYTES_PER_ELEMENT(dt)) * BYTES_PER_ELEMENT(dt)) |-> 0]

\* toArray()
toArray(m, v, g, ub) ==
  copyInto(m, v, TypedArrayTarget(NewTypedArray(v.dtype, v.byteLength)), Omitted, g, ub)

\* new IpcHandle(buffer, byteOffset): the descriptor of a handle and an
\* offset into it
IpcHandle(h, byteOffset) == [buffer |-> h, byteOffset |-> byteOffset]

\* getIpcHandle without the instanceof test
getIpcHandleUnchecked(m, v) ==
  NoEffects @@ [thrown |-> "none", result |-> [ipc |-> IpcHandle(v.buffer, v.byteOffset)]]

\* getIpcHandle()
getIpcHandle(m, v) ==
  IF m[v.buffer].kind = "DeviceMemory"
  THEN NoEffects @@ [thrown |-> "none", result |-> [ipc |-> IpcHandle(v.buffer, v.byteOffset)]]
  ELSE NoEffects @@ [thrown |-> "Error", result |-> Undefined]

\* i > -1 && i < receiver.length
InRange(v, p) == p > -1 /\ p * BPE(v) < v.byteLength

\* the staging buffer E: eight bytes shared by every dtype
Staging == <<0, 0, 0, 0, 0, 0, 0, 0>>

\* E[0] of the receiver's typed array over the staging buffer
E0(dt, e) == FromBytes(dt, SubSeq(e, 1, BYTES_PER_ELEMENT(dt)))

\* v[p].  An own property is read directly; anything else reaches the get
\* trap of the proxy on the prototype chain.  view is the receiver afterwards.
getElement(m, v, p, g, ub) ==
  LET at == v.byteOffset + p * BPE(v)
      c  == cudaMemcpyDtoH(m, Staging, v.buffer, at, BPE(v), g, ub)
  IN  IF p \in DOMAIN v.own
      THEN NoEffects @@ [mem |-> m, view |-> v, result |-> v.own[p], error |-> FALSE,
                         ub |-> FALSE]
      ELSE IF InRange(v, p)
      THEN [mem |-> m, allocs |-> <<>>, slices |-> <<>>,
            copies |-> <<CopyCall(HostPtr, DevPtr(v.buffer, at), BPE(v))>>,
            view |-> IF c.error THEN [v EXCEPT !.byteOffset = at] ELSE v,
            result |-> E0(v.dtype, c.out), error |-> c.error, ub |-> c.ub]
      ELSE NoEffects @@ [mem |-> m, view |-> v, result |-> Undefined, error |-> FALSE,
                         ub |-> FALSE]

\* v[p] = value.  An own property is written directly; anything else reaches
\* the set trap, which ends in Reflect.set(target, p, value, receiver) when
\* p is no index of the view: that defines p on the receiver.
setElement(m, v, p, value, ub) ==
  LET at     == v.byteOffset + p * BPE(v)
      staged == WriteDev(Staging, 0, ToBytes(v.dtype, value), BPE(v))
      c      == cudaMemcpyHtoD(m, v.buffer, at, staged, BPE(v), ub)
  IN  IF p \in DOMAIN v.own \/ ~InRange(v, p)
      THEN NoEffects @@ [mem |-> m, view |-> [v EXCEPT !.own = (p :> Num(value)) @@ @],
                         error |-> FALSE, ub |-> FALSE]
      ELSE [mem |-> c.mem, allocs |-> <<>>, slices |-> <<>>,
            copies |-> <<CopyCall(DevPtr(v.buffer, at), HostPtr, BPE(v))>>,
            view |-> IF c.error THEN [v EXCEPT !.byteOffset = at] ELSE v,
            error |-> c.error, ub |-> c.ub]

\* ------------------------------------------------------------------------
\* State: the device handles, the views the program holds, what the last
\* call did, and the number of calls made.  The staging buffer E of the
\* element traps is overwritten before every use, so it is local to them.
\* ------------------------------------------------------------------------
VARIABLES mem, views, last, calls

\* the ColumnAccessors the program holds (part_001)
VARIABLE accessors

vars == <<mem, views, last, calls, allocator, accessors>>

\* the dtypes runs of Spec draw from: element sizes 1, 2 and 4
MainDtypes == {"Uint8ClampedArray", "Int16Array", "Float32Array"}

\* every view of a run has the dtype of the first
DtypesOf(pool) == IF views = <<>> THEN pool ELSE {views[1].dtype}

\* host sequences of element values
HostSeqsOf(values) == UNION {[1..n -> values] : n \in 0..MaxLen}

HostSeqs == HostSeqsOf(Values)

\* start / end / begin arguments: omitted, negative, inside, beyond the end
IndexArgs == {Omitted, Arg(-1), Arg(1), Arg(MaxLen + 1)}

\* element indices used with v[i]
Indices == -1..MaxLen

HostSourcesOf(dt, values) ==
  UNION {{IterableSource(xs), ArrayLikeSource(xs), TypedArraySource(HostBytes(dt, xs)),
          ArrayBufferSource(HostBytes(dt, xs))} : xs \in HostSeqsOf(values)}

HostSources(dt) == HostSourcesOf(dt, Values)

SetSources(dt) ==
  {IterableSource(xs) : xs \in HostSeqs}
    \cup {ViewSource(views[j]) : j \in 1..Len(views)}

CopyFromSources(dt) ==
  {TypedArraySource(HostBytes(dt, xs)) : xs \in HostSeqs}
    \cup {ViewSource(views[j]) : j \in 1..Len(views)}

CopyTargets(dt) ==
  {ViewTarget(j, views[j]) : j \in 1..Len(views)}
    \cup UNION {{ArrayBufferTarget(NewTypedArray(dt, n * BYTES_PER_ELEMENT(dt))),
                 TypedArrayTarget(NewTypedArray(dt, n * BYTES_PER_ELEMENT(dt)))}
                : n \in 0..MaxLen}

\* How an undefined copy turns out: ub as in UBOutcomes, g what bytes read
\* from outside an allocation hold.  A defined copy has one outcome.
Defined == [ub |-> "snapshot", g |-> 0]

Faults ==
  {[ub |-> "error", g |-> 0]}
    \cup {[ub |-> u, g |-> g] : u \in UBOutcomes \ {"error"}, g \in Garbage}

Outcomes(eff) == IF eff.ub THEN Faults ELSE {Defined}

Called(op, i, eff, result, changed) ==
  [op |-> op, view |-> i, allocs |-> eff.allocs, copies |-> eff.copies,
   slices |-> eff.slices, result |-> result, error |-> "none", changed |-> changed]

Raised(op, i, eff, changed) ==
  [op |-> op, view |-> i, allocs |-> eff.allocs, copies |-> eff.copies,
   slices |-> eff.slices, result |-> [thrown |-> TRUE],
   error |-> IF Thrown(eff) = "none" THEN "cudaError" ELSE Thrown(eff),
   changed |-> changed]

Init ==
  /\ allocator = "DeviceMemory"
  /\ mem = <<>>
  /\ views = <<>>
  /\ accessors = <<>>
  /\ calls = 0
  /\ last = [op |-> "init", view |-> 0, allocs |-> <<>>, copies |-> <<>>,
             slices |-> <<>>, result |-> [none |-> TRUE], error |-> "none",
             changed |-> TRUE]

\* A run makes at most MaxCalls calls.  A call that changed neither the
\* memory nor a view is the last of its run: the calls that could follow it
\* are the calls that could have been made in its place.
Ready == calls < MaxCalls /\ last.changed

\* every call but setDefaultAllocator leaves the allocator hook alone, and
\* no call on memory or a view reaches a ColumnAccessor
Call == Ready /\ calls' = calls + 1 /\ allocator' = allocator /\ accessors' = accessors

\* the program keeps the view a constructor, subarray or slice returned; a
\* constructor that threw returned none
Keep(op, i, r) ==
  /\ Call
  /\ mem' = r.mem
  /\ views' = IF Thrown(r) = "none" THEN Append(views, r.view) ELSE views
  /\ last' = IF Thrown(r) = "none" THEN Called(op, i, r, [view |-> Len(views) + 1], TRUE)
             ELSE Raised(op, i, r, FALSE)

\* new View(length)
NewLength(dt, n, g) ==
  Keep("new(length)", 0, MemoryViewCtor(mem, dt, <<NumberSource(n)>>, g))

\* new View(values), a host source
NewHost(dt, source) ==
  Keep("new(host)", 0, MemoryViewCtor(mem, dt, <<source>>, 0))

\* new View(view)
NewView(dt, i) ==
  Keep("new(view)", i, MemoryViewCtor(mem, dt, <<ViewSource(views[i])>>, 0))

\* new View(memory)
NewMemory(dt, h) ==
  Keep("new(memory)", 0, MemoryViewCtor(mem, dt, <<MemorySource(h)>>, 0))

\* new View(memory, byteOffset, length)
NewRange(dt, h, byteOffset, length) ==
  Keep("new(memory,byteOffset,length)", 0,
       MemoryViewCtor(mem, dt, <<MemorySource(h), byteOffset,
                                 Scaled(length, BYTES_PER_ELEMENT(dt))>>, 0))

\* new View(), new View(undefined), new View(null)
NewEmpty(dt, g) ==
  Keep("new()", 0, MemoryViewCtor(mem, dt, <<>>, g))

\* new View({}), an object of no known shape
NewUnknown(dt, g) ==
  Keep("new(unknown)", 0, MemoryViewCtor(mem, dt, <<UnknownSource>>, g))

\* new View({buffer, byteOffset, byteLength})
NewObject(dt, h, byteOffset, byteLength) ==
  Keep("new(object)", 0, MemoryViewCtor(mem, dt, <<ObjectSource(h, byteOffset, byteLength)>>, 0))

\* v.getIpcHandle()
GetIpcHandle(i) ==
  LET eff == getIpcHandle(mem, views[i])
  IN  /\ Call
      /\ last' = IF Thrown(eff) = "none" THEN Called("getIpcHandle", i, eff, eff.result, FALSE)
                 ELSE Raised("getIpcHandle", i, eff, FALSE)
      /\ UNCHANGED <<mem, views>>

\* setDefaultAllocator(f)
SetDefaultAllocator(f) ==
  /\ Ready
  /\ calls' = calls + 1
  /\ allocator' = f
  /\ last' = Called("setDefaultAllocator", 0, NoEffects, Undefined, TRUE)
  /\ UNCHANGED <<mem, views, accessors>>

\* v.subarray(begin, end)
Subarray(i, begin, end) ==
  LET v == views[i]
  IN  Keep("subarray", i,
           NoEffects @@
           [mem |-> mem,
            view |-> subarray(mem, v, Scaled(begin, BPE(v)), Scaled(end, BPE(v)))])

\* v.slice(start, end)
Slice(i, start, end) ==
  LET v == views[i]
  IN  Keep("slice", i, slice(mem, v, Scaled(start, BPE(v)), Scaled(end, BPE(v))))

\* a call that changes device memory only
Mutate(op, i, eff, result) ==
  /\ Call
  /\ mem' = eff.mem
  /\ last' = IF eff.error THEN Raised(op, i, eff, FALSE)
             ELSE Called(op, i, eff, result, eff.mem # mem)
  /\ UNCHANGED views

setOf(i, array, start, f) ==
  set(mem, views[i], array, Scaled(start, BPE(views[i])), f.g, f.ub)

\* v.set(array, start)
Set(i, array, start, f) == Mutate("set", i, setOf(i, array, start, f), Undefined)

\* v.copyFrom(source, start)
CopyFrom(i, array, start, f) ==
  Mutate("copyFrom", i, setOf(i, array, start, f), [this |-> i])

fillOf(i, value, start, end, f) ==
  fill(mem, views[i], value, Scaled(start, BPE(views[i])), Scaled(end, BPE(views[i])),
       f.g, f.ub)

\* v.fill(value, start, end)
Fill(i, value, start, end, f) ==
  Mutate("fill", i, fillOf(i, value, start, end, f), [this |-> i])

copyIntoOf(i, target, start, f) ==
  copyInto(mem, views[i], target, Scaled(start, BPE(views[i])), f.g, f.ub)

\* v.copyInto(target, start)
CopyInto(i, target, start, f) ==
  LET eff == copyIntoOf(i, target, start, f)
  IN  Mutate("copyInto", i, eff, [this |-> i, target |-> target.kind, out |-> eff.out])

\* v.toArray()
ToArray(i, f) ==
  LET eff == toArray(mem, views[i], f.g, f.ub)
  IN  Mutate("toArray", i, eff, [array |-> eff.out, dtype |-> views[i].dtype])

\* a call that may change the receiver and device memory
Access(op, i, eff, result) ==
  /\ Call
  /\ mem' = eff.mem
  /\ views' = [views EXCEPT ![i] = eff.view]
  /\ last' = IF eff.error THEN Raised(op, i, eff, TRUE)
             ELSE Called(op, i, eff, result, eff.mem # mem \/ eff.view # views[i])

\* v[p]
Get(i, p, f) ==
  LET eff == getElement(mem, views[i], p, f.g, f.ub)
  IN  Access("get", i, eff, eff.result)

\* v[p] = value
Put(i, p, value, f) ==
  Access("put", i, setElement(mem, views[i], p, value, f.ub), Num(value))

Next ==
  \/ Ready /\ \E dt \in DtypesOf(MainDtypes), n \in 0..MaxLen, g \in Garbage :
       NewLength(dt, n, g)
  \/ Ready /\ \E dt \in DtypesOf(MainDtypes) : \E source \in HostSources(dt) :
       NewHost(dt, source)
  \/ Ready /\ \E dt \in DtypesOf(MainDtypes), i \in 1..Len(views) : NewView(dt, i)
  \/ Ready /\ \E dt \in DtypesOf(MainDtypes), h \in 1..Len(mem) : NewMemory(dt, h)
  \/ Ready /\ \E dt \in DtypesOf(MainDtypes), h \in 1..Len(mem),
                 byteOffset \in NumberArgs(-1..MaxLen),
                 length \in NumberArgs(-1..(MaxLen + 1)) :
       NewRange(dt, h, Scaled(byteOffset, BYTES_PER_ELEMENT(dt)), length)
  \/ Ready /\ \E dt \in DtypesOf(MainDtypes), g \in Garbage : NewEmpty(dt, g)
  \/ Ready /\ \E dt \in DtypesOf(MainDtypes), g \in Garbage : NewUnknown(dt, g)
  \/ Ready /\ \E i \in 1..Len(views), begin \in IndexArgs, end \in IndexArgs :
       Subarray(i, begin, end)
  \/ Ready /\ \E i \in 1..Len(views), start \in IndexArgs, end \in IndexArgs :
       Slice(i, start, end)
  \/ Ready /\ \E i \in 1..Len(views), start \in IndexArgs :
       \E array \in SetSources(views[i].dtype) :
         \E f \in Outcomes(setOf(i, array, start, Defined)) : Set(i, array, start, f)
  \/ Ready /\ \E i \in 1..Len(views), start \in IndexArgs :
       \E array \in CopyFromSources(views[i].dtype) :
         \E f \in Outcomes(setOf(i, array, start, Defined)) : CopyFrom(i, array, start, f)
  \/ Ready /\ \E i \in 1..Len(views), value \in Values, start \in IndexArgs,
                 end \in IndexArgs :
       \E f \in Outcomes(fillOf(i, value, start, end, Defined)) :
         Fill(i, value, start, end, f)
  \/ Ready /\ \E i \in 1..Len(views), start \in IndexArgs :
       \E target \in CopyTargets(views[i].dtype) :
         \E f \in Outcomes(copyIntoOf(i, target, start, Defined)) :
           CopyInto(i, target, start, f)
  \/ Ready /\ \E i \in 1..Len(views) :
       \E f \in Outcomes(toArray(mem, views[i], 0, "snapshot")) : ToArray(i, f)
  \/ Ready /\ \E i \in 1..Len(views), p \in Indices :
       \E f \in Outcomes(getElement(mem, views[i], p, 0, "snapshot")) : Get(i, p, f)
  \/ Ready /\ \E i \in 1..Len(views), p \in Indices, value \in Values :
       \E f \in Outcomes(setElement(mem, views[i], p, value, "snapshot")) :
         Put(i, p, value, f)

Spec == Init /\ [][Next]_vars

\* ------------------------------------------------------------------------
\* Construction from host data in every dtype: one view is built from a
\* length, from host values or from nothing, and then read
\* ------------------------------------------------------------------------
\* element values: zero, one, a negative, one wider than a byte
NewValues == {0, 1, -1, 300}

NextNew ==
  \/ Ready /\ views = <<>> /\ \E dt \in DtypeTags, n \in 0..MaxLen, g \in Garbage :
       NewLength(dt, n, g)
  \/ Ready /\ views = <<>> /\ \E dt \in DtypeTags :
       \E source \in HostSourcesOf(dt, NewValues) : NewHost(dt, source)
  \/ Ready /\ views = <<>> /\ \E dt \in DtypeTags, g \in Garbage : NewEmpty(dt, g)
  \/ Ready /\ views = <<>> /\ \E dt \in DtypeTags, g \in Garbage : NewUnknown(dt, g)
  \/ Ready /\ \E i \in 1..Len(views) :
       \E f \in Outcomes(toArray(mem, views[i], 0, "snapshot")) : ToArray(i, f)
  \/ Ready /\ \E i \in 1..Len(views), p \in Indices :
       \E f \in Outcomes(getElement(mem, views[i], p, 0, "snapshot")) : Get(i, p, f)

SpecNew == Init /\ [][NextNew]_vars

\* ------------------------------------------------------------------------
\* Replacing the allocator hook between constructions, set and fill
\* ------------------------------------------------------------------------
AllocDtypes == {"Int16Array", "Float64Array"}

AllocStarts == {Omitted, Arg(1)}

\* what set is handed: an iterable, a host typed array, a view
AllocSources(dt) ==
  UNION {{IterableSource(xs), TypedArraySource(HostBytes(dt, xs))} : xs \in HostSeqsOf({1})}
    \cup {ViewSource(views[j]) : j \in 1..Len(views)}

NextAlloc ==
  \/ Ready /\ \E f \in Allocators : SetDefaultAllocator(f)
  \/ Ready /\ \E dt \in DtypesOf(AllocDtypes), n \in 0..MaxLen, g \in Garbage :
       NewLength(dt, n, g)
  \/ Ready /\ \E dt \in DtypesOf(AllocDtypes) : \E source \in HostSourcesOf(dt, {1}) :
       NewHost(dt, source)
  \/ Ready /\ \E dt \in DtypesOf(AllocDtypes), g \in Garbage : NewUnknown(dt, g)
  \/ Ready /\ \E dt \in DtypesOf(AllocDtypes), i \in 1..Len(views) : NewView(dt, i)
  \/ Ready /\ \E dt \in DtypesOf(AllocDtypes), h \in 1..Len(mem) : NewMemory(dt, h)
  \/ Ready /\ \E dt \in DtypesOf(AllocDtypes), h \in 1..Len(mem), byteOffset \in 0..1,
                 length \in 0..1 :
       NewRange(dt, h, Arg(byteOffset * BYTES_PER_ELEMENT(dt)), Arg(length))
  \/ Ready /\ \E dt \in DtypesOf(AllocDtypes), h \in 1..Len(mem), byteOffset \in 0..1,
                 length \in 0..1 :
       NewObject(dt, h, byteOffset * BYTES_PER_ELEMENT(dt), length * BYTES_PER_ELEMENT(dt))
  \/ Ready /\ \E i \in 1..Len(views), start \in AllocStarts :
       \E array \in AllocSources(views[i].dtype) :
         \E f \in Outcomes(setOf(i, array, start, Defined)) : Set(i, array, start, f)
  \/ Ready /\ \E i \in 1..Len(views), start \in AllocStarts, end \in AllocStarts :
       \E f \in Outcomes(fillOf(i, 1, start, end, Defined)) : Fill(i, 1, start, end, f)
  \/ Ready /\ \E i \in 1..Len(views) : GetIpcHandle(i)

SpecAlloc == Init /\ [][NextAlloc]_vars

\* ------------------------------------------------------------------------
\* Windows: a view is made of a length, then subarrays, slices and views of
\* views are taken and windows filled, with every kind of start and end
\* ------------------------------------------------------------------------
WindowDtypes == {"Uint8Array", "Float64Array"}

NextWindow ==
  \/ Ready /\ views = <<>> /\ \E dt \in WindowDtypes, n \in 0..MaxLen, g \in Garbage :
       NewLength(dt, n, g)
  \/ Ready /\ \E i \in 1..Len(views), begin \in IndexArgs, end \in IndexArgs :
       Subarray(i, begin, end)
  \/ Ready /\ \E i \in 1..Len(views), start \in IndexArgs, end \in IndexArgs :
       Slice(i, start, end)
  \/ Ready /\ \E i \in 1..Len(views), start \in IndexArgs, end \in IndexArgs :
       \E f \in Outcomes(fillOf(i, 1, start, end, Defined)) : Fill(i, 1, start, end, f)
  \/ Ready /\ \E i \in 1..Len(views) : NewView(views[i].dtype, i)

SpecWindow == Init /\ [][NextWindow]_vars

\* ------------------------------------------------------------------------
\* Coercion in set, in every dtype and in a view class bound to a typed
\* array that is none of the eleven: up to two views are made of a length,
\* then host data and views are set into them
\* ------------------------------------------------------------------------
NextCoerce ==
  \/ Ready /\ Len(views) < 2 /\
       \E dt \in DtypesOf(DtypeTags \cup {ForeignTag}), n \in 0..MaxLen, g \in Garbage :
         NewLength(dt, n, g)
  \/ Ready /\ \E i \in 1..Len(views), start \in AllocStarts :
       \E array \in AllocSources(views[i].dtype) :
         \E f \in Outcomes(setOf(i, array, start, Defined)) : Set(i, array, start, f)

SpecCoerce == Init /\ [][NextCoerce]_vars

\* ------------------------------------------------------------------------
\* Views of two element sizes over the same handles and host bytes: a handle
\* or a host buffer made for one dtype is wrapped by a view of the other
\* ------------------------------------------------------------------------
MixedDtypes == {"Uint8Array", "Int16Array"}

NextMixed ==
  \/ Ready /\ \E dt \in MixedDtypes, n \in 0..(MaxLen + 1), g \in Garbage :
       NewLength(dt, n, g)
  \/ Ready /\ \E dt \in MixedDtypes, of \in MixedDtypes :
       \E source \in HostSourcesOf(of, {1}) : NewHost(dt, source)
  \/ Ready /\ \E dt \in MixedDtypes, h \in 1..Len(mem) : NewMemory(dt, h)
  \/ Ready /\ \E dt \in MixedDtypes, h \in 1..Len(mem), byteOffset \in 0..1,
                 length \in 0..MaxLen :
       NewRange(dt, h, Arg(byteOffset), Arg(length))
  \/ Ready /\ \E dt \in MixedDtypes, i \in 1..Len(views) : NewView(dt, i)
  \/ Ready /\ \E i \in 1..Len(views), begin \in IndexArgs, end \in IndexArgs :
       Subarray(i, begin, end)
  \/ Ready /\ \E i \in 1..Len(views), start \in IndexArgs, end \in IndexArgs :
       Slice(i, start, end)

SpecMixed == Init /\ [][NextMixed]_vars

\* ------------------------------------------------------------------------
\* DeviceBuffer, the handle the tests of part_000 resize.  Its code is
\* outside the source tree: a buffer keeps its allocation when it shrinks
\* and reallocates, copying the valid bytes, when it grows past it.
\* ------------------------------------------------------------------------
\* the largest size a buffer is created with or resized to
MaxBytes == 5

\* new DeviceBuffer(n)
DeviceBufferNew(n, g) == Handle([k \in 1..n |-> g])

\* resize giving the allocation back when the buffer shrinks
resizeShrinking(b, k, g) ==
  [bytes    |-> [j \in 1..k |-> IF j <= Len(b.bytes) THEN b.bytes[j] ELSE g],
   capacity |-> k]

\* DeviceBuffer.resize(k): bytes past the old size hold whatever was there
resize(b, k, g) ==
  [bytes    |-> [j \in 1..k |-> IF j <= Len(b.bytes) THEN b.bytes[j] ELSE g],
   capacity |-> Max(b.capacity, k)]

\* new DeviceBuffer(n); largest is the largest size asked for so far
NewBuffer(n, g) ==
  /\ Call
  /\ mem = <<>>
  /\ mem' = <<DeviceBufferNew(n, g)>>
  /\ last' = Called("new DeviceBuffer", 0, NoEffects, [requested |-> n, largest |-> n], TRUE)
  /\ UNCHANGED views

\* buffer.resize(k)
Resize(k, g) ==
  /\ Call
  /\ mem # <<>>
  /\ mem' = [mem EXCEPT ![1] = resize(@, k, g)]
  /\ last' = Called("resize", 0, NoEffects,
                    [requested |-> k, largest |-> Max(last.result.largest, k)], TRUE)
  /\ UNCHANGED views

NextResize ==
  \/ Ready /\ \E n \in 0..MaxBytes, g \in Garbage : NewBuffer(n, g)
  \/ Ready /\ \E k \in 0..MaxBytes, g \in Garbage : Resize(k, g)

SpecResize == Init /\ [][NextResize]_vars

\* ------------------------------------------------------------------------
\* ColumnAccessor (part_001): an ordered map of column names to columns.
\* Its _data is a plain JS object, a sequence of own properties in the
\* order Object.keys lists them; a plain object inherits the properties of
\* Object.prototype.
\* ------------------------------------------------------------------------
\* the largest number of properties an object literal handed to the API has,
\* and of names in a list of names
MaxColumns == 2

\* properties of Object.prototype, and the functions they hold
ProtoNames == {"constructor", "toString"}

Inherited(name) ==
  [function |-> name, length |-> IF name = "constructor" THEN 1 ELSE 0]

\* the array index a property name is, -1 when it is none
KeyIndex(name) == CASE name = "0" -> 0 [] name = "1" -> 1 [] OTHER -> -1

\* Object.keys(o)
OwnNames(o) == [k \in 1..Len(o) |-> o[k].name]

\* Object.values(o)
OwnValues(o) == [k \in 1..Len(o) |-> o[k].value]

HasOwn(o, name) == \E k \in 1..Len(o) : o[k].name = name

\* name in o: own or inherited
In(o, name) == HasOwn(o, name) \/ name \in ProtoNames

\* o[name]
GetProp(o, name) ==
  IF HasOwn(o, name) THEN o[CHOOSE k \in 1..Len(o) : o[k].name = name].value
  ELSE IF name \in ProtoNames THEN Inherited(name)
  ELSE Undefined

\* o[name] = value, or a property of an object literal or a spread: a name
\* the object has keeps its place; a new array index goes among the array
\* indices in ascending order, before every other name; any other new name
\* goes last
DefineProperty(o, name, value) ==
  IF HasOwn(o, name)
  THEN [k \in 1..Len(o) |-> IF o[k].name = name THEN [name |-> name, value |-> value] ELSE o[k]]
  ELSE LET p == IF KeyIndex(name) = -1 THEN Len(o)
                ELSE Cardinality({k \in 1..Len(o) :
                                    /\ KeyIndex(o[k].name) > -1
                                    /\ KeyIndex(o[k].name) < KeyIndex(name)})
       IN  SubSeq(o, 1, p) \o <<[name |-> name, value |-> value]>> \o SubSeq(o, p + 1, Len(o))

\* {...o, ...props}: the properties props defined on o one after another
RECURSIVE Spread(_, _)
Spread(o, props) ==
  IF props = <<>> THEN o
  ELSE Spread(DefineProperty(o, Head(props).name, Head(props).value), Tail(props))

\* a Column: an object with a length
Column(id, length) == [column |-> id, length |-> length]

\* new ColumnAccessor(data) without the test of the lengths
ColumnAccessorUnchecked(data) ==
  [thrown   |-> "none",
   accessor |-> [data   |-> data,
                 labels |-> [n \in {data[k].name : k \in 1..Len(data)} |->
                               (CHOOSE k \in 1..Len(data) : data[k].name = n) - 1]]]

\* new ColumnAccessor(data): _data is data itself, _labels_to_indices maps
\* each of Object.keys(data) to its index
ColumnAccessor(data) ==
  IF Len(OwnValues(data)) > 0
     /\ ~(\A k \in 1..Len(data) : OwnValues(data)[k].length = OwnValues(data)[1].length)
  THEN [thrown |-> "Column lengths must all be the same"]
  ELSE [thrown   |-> "none",
        accessor |-> [data   |-> data,
                      labels |-> [n \in {data[k].name : k \in 1..Len(data)} |->
                                    (CHOOSE k \in 1..Len(data) : data[k].name = n) - 1]]]

\* get names()
namesOf(a) == OwnNames(a.data)

\* get columns()
columnsOf(a) == OwnValues(a.data)

\* get length(): _labels_to_indices.size
lengthOf(a) == Cardinality(DOMAIN a.labels)

\* columnNameToColumnIndex(name): Map.get
columnNameToColumnIndex(a, name) ==
  IF name \in DOMAIN a.labels THEN Num(a.labels[name]) ELSE Undefined

\* get(name)
get(a, name) ==
  IF ~In(a.data, name) THEN [thrown |-> "Unknown column name"]
  ELSE [thrown |-> "none", value |-> GetProp(a.data, name)]

\* addColumns(data)
addColumns(a, data) == ColumnAccessor(Spread(Spread(<<>>, a.data), data))

\* names.reduce((xs, x) => ({...xs, [x]: true}), {})
RECURSIVE NamesMap(_, _)
NamesMap(xs, list) ==
  IF list = <<>> THEN xs
  ELSE NamesMap(DefineProperty(Spread(<<>>, xs), Head(list), TRUE), Tail(list))

\* the loop of dropColumns over the names still to visit
RECURSIVE DropLoop(_, _, _, _)
DropLoop(data, a, namesMap, rest) ==
  IF rest = <<>> THEN data
  ELSE DropLoop(IF ~In(namesMap, Head(rest))
                THEN DefineProperty(data, Head(rest), GetProp(a.data, Head(rest)))
                ELSE data,
                a, namesMap, Tail(rest))

\* dropColumns(names)
dropColumns(a, list) == ColumnAccessor(DropLoop(<<>>, a, NamesMap(<<>>, list), namesOf(a)))

\* the loop of selectByColumnNames: if (this._data[name]) is true of any
\* object and function, false of undefined
RECURSIVE SelectLoop(_, _, _)
SelectLoop(data, a, rest) ==
  IF rest = <<>> THEN data
  ELSE SelectLoop(IF GetProp(a.data, Head(rest)) # Undefined
                  THEN DefineProperty(data, Head(rest), GetProp(a.data, Head(rest)))
                  ELSE data,
                  a, Tail(rest))

\* selectByColumnNames(names)
selectByColumnNames(a, list) == ColumnAccessor(SelectLoop(<<>>, a, list))

\* column names: an ordinary name, an array index, a name Object.prototype has
ColumnNames == {"a", "0", "constructor"}

\* names asked for: the column names and a name no accessor has
QueryNames == ColumnNames \cup {"b"}

\* two columns of one length and one of another
Columns == {Column(1, 1), Column(2, 1), Column(3, 2)}

\* object literals {name: column, ..}
ColumnsMaps ==
  {Spread(<<>>, props) :
     props \in UNION {[1..n -> {[name |-> name, value |-> c] : name \in ColumnNames, c \in Columns}]
                      : n \in 0..MaxColumns}}

\* lists of names
NameLists == UNION {[1..n -> QueryNames] : n \in 0..MaxColumns}

\* a call that returns a new accessor, or throws; input is what it was handed
Accessed(op, i, input, r) ==
  /\ Ready
  /\ calls' = calls + 1
  /\ accessors' = IF r.thrown = "none" THEN Append(accessors, r.accessor) ELSE accessors
  /\ last' = IF r.thrown = "none"
             THEN Called(op, i, NoEffects, [accessor |-> Len(accessors) + 1, input |-> input],
                         TRUE)
             ELSE [Raised(op, i, NoEffects @@ r, FALSE) EXCEPT !.result = [input |-> input]]
  /\ UNCHANGED <<mem, views, allocator>>

\* new ColumnAccessor(data)
NewAccessor(data) == Accessed("new ColumnAccessor", 0, data, ColumnAccessor(data))

\* a.addColumns(data)
AddColumns(i, data) == Accessed("addColumns", i, data, addColumns(accessors[i], data))

\* a.dropColumns(names)
DropColumns(i, list) == Accessed("dropColumns", i, list, dropColumns(accessors[i], list))

\* a.selectByColumnNames(names)
SelectByColumnNames(i, list) ==
  Accessed("selectByColumnNames", i, list, selectByColumnNames(accessors[i], list))

\* a.get(name)
GetColumn(i, name) ==
  LET r == get(accessors[i], name)
  IN  /\ Call
      /\ last' = IF r.thrown = "none"
                 THEN Called("accessor.get", i, NoEffects, [input |-> name, value |-> r.value],
                             FALSE)
                 ELSE [Raised("accessor.get", i, NoEffects @@ r, FALSE)
                         EXCEPT !.result = [input |-> name]]
      /\ UNCHANGED <<mem, views>>

NextColumns ==
  \/ Ready /\ accessors = <<>> /\ \E data \in ColumnsMaps : NewAccessor(data)
  \/ Ready /\ \E i \in 1..Len(accessors), data \in ColumnsMaps : AddColumns(i, data)
  \/ Ready /\ \E i \in 1..Len(accessors), list \in NameLists : DropColumns(i, list)
  \/ Ready /\ \E i \in 1..Len(accessors), list \in NameLists : SelectByColumnNames(i, list)
  \/ Ready /\ \E i \in 1..Len(accessors), name \in QueryNames : GetColumn(i, name)

SpecColumns == Init /\ [][NextColumns]_vars

\* ------------------------------------------------------------------------
\* Properties
\* ------------------------------------------------------------------------
\* what v.toArray() returns, a copy that raises leaving the new array zeroed
Elements(m, v) == HostElements(v.dtype, toArray(m, v, 0, "error").out)

\* what v[p] reads
ElementAt(m, v, p) == getElement(m, v, p, 0, "error").result

\* the view the last call returned
Returned == views[Len(views)]

AllOutcomes == Faults \cup {Defined}

\* the step is a call of op on views[i]
Did(op, i) == last'.op = op /\ last'.view = i

\* the element values xs are all values of the dtype
AllRepresentable(dt, xs) == \A k \in 1..Len(xs) : Representable(dt, xs[k])

\* C1: for every dtype and every n >= 0, new View(n) makes exactly one
\* allocator call, for n * elementSize bytes, and gives a view of length n,
\* byteLength n * elementSize and byteOffset 0 over the handle returned; that
\* handle of b bytes has byteLength b, capacity b, and is empty exactly when
\* b = 0.
C1_NewLength ==
  [][\A dt \in DtypeTags, n \in 0..MaxLen, g \in Garbage :
       NewLength(dt, n, g) =>
         LET v == views'[Len(views')]
             b == n * BYTES_PER_ELEMENT(dt)
         IN  /\ last'.allocs = <<AllocCall(b)>>
             /\ Len(mem') = Len(mem) + 1
             /\ v.buffer = Len(mem')
             /\ v.dtype = dt
             /\ v.byteLength = b
             /\ v.byteLength \div BYTES_PER_ELEMENT(dt) = n
             /\ v.byteOffset = 0
             /\ byteLengthOf(mem', v.buffer) = b
             /\ capacityOf(mem', v.buffer) = b
             /\ (isEmpty(mem', v.buffer) <=> b = 0)]_vars

\* a view of MaxLen eight-byte elements was made by new View(MaxLen)
C1_Witness ==
  /\ last.op = "new(length)"
  /\ BPE(Returned) = 8
  /\ Returned.byteLength = MaxLen * 8
  /\ last.allocs = <<AllocCall(MaxLen * 8)>>

\* C2: round trip.  For every dtype and every host sequence A of values of
\* that dtype, given as a plain array, an iterable or a host typed array of
\* the dtype, new View(A).toArray() has |A| elements and equals A element by
\* element.
C2_RoundTrip ==
  [][\A dt \in DtypeTags : \A xs \in HostSeqsOf(NewValues) :
       (/\ last'.op = "new(host)"
        /\ views'[Len(views')].dtype = dt
        /\ views'[Len(views')].byteLength = Len(xs) * BYTES_PER_ELEMENT(dt)
        /\ AllRepresentable(dt, xs)) =>
         \A source \in {IterableSource(xs), ArrayLikeSource(xs),
                        TypedArraySource(HostBytes(dt, xs))} :
           NewHost(dt, source) =>
             /\ Len(Elements(mem', views'[Len(views')])) = Len(xs)
             /\ Elements(mem', views'[Len(views')]) = [k \in 1..Len(xs) |-> Num(xs[k])]]_vars

\* a view was made of MaxLen host values, the first of them negative and the
\* last wider than a byte, and toArray gives them back
C2_Witness ==
  /\ last.op = "new(host)"
  /\ Returned.byteLength = MaxLen * BPE(Returned)
  /\ Elements(mem, Returned)[1] = Num(-1)
  /\ Elements(mem, Returned)[MaxLen] = Num(300)

\* C3: set(source, start) copies exactly min((length - s) * elementSize,
\* source.byteLength) bytes, s being the clamped start, to the bytes that
\* begin at byteOffset + s * elementSize, in one copy; it writes no byte of
\* the handle at or beyond byteOffset + byteLength of the view, and leaves
\* the bytes of the view before index s as they were.
C3_SetCopiesWindow ==
  [][\A i \in 1..Len(views), start \in IndexArgs :
       \A array \in SetSources(views[i].dtype) : \A f \in AllOutcomes :
         (Did("set", i) /\ Set(i, array, start, f)) =>
           LET v    == views[i]
               s    == clampSliceArgs(v.byteLength, Scaled(start, BPE(v)), Omitted)[1]
               src  == asMemoryView(mem, array, v.dtype, 0).view
               n    == Min(v.byteLength - s, src.byteLength)
               copy == last'.copies[Len(last'.copies)]
               old  == mem[v.buffer].bytes
               new  == mem'[v.buffer].bytes
           IN  /\ copy.n = n
               /\ copy.dst = DevPtr(v.buffer, v.byteOffset + s)
               /\ Len(last'.copies) = Len(asMemoryView(mem, array, v.dtype, 0).copies) + 1
               /\ \A k \in 1..Len(old) :
                    (k > v.byteOffset + v.byteLength \/ k <= v.byteOffset + s)
                      => new[k] = old[k]]_vars

\* C4: every view the program holds has byteOffset >= 0 and byteOffset +
\* byteLength <= the capacity of its handle.
C4_ViewsInsideCapacity ==
  \A i \in 1..Len(views) :
    /\ views[i].byteOffset >= 0
    /\ views[i].byteOffset + views[i].byteLength <= capacityOf(mem, views[i].buffer)

\* views[j] is what views[i].subarray(b, e) gives, b and e in bytes
IsSubarray(j, i, b, e) ==
  /\ j # i
  /\ 0 <= b /\ b <= e /\ e <= views[i].byteLength
  /\ views[j].buffer = views[i].buffer
  /\ views[j].dtype = views[i].dtype
  /\ views[j].byteOffset = views[i].byteOffset + b
  /\ views[j].byteLength = e - b

\* the byte steps 0, BPE, 2 BPE, .. up to the length of views[i]
Steps(i) == {k * BPE(views[i]) : k \in 0..(views[i].byteLength \div BPE(views[i]))}

\* the index argument a, or d when it is omitted
ArgOr(a, d) == IF a = Omitted THEN d ELSE Only(a)

\* C5: for 0 <= start <= end <= v.length, v.subarray(start, end) is a view of
\* v's handle with byteOffset = v.byteOffset + start * elementSize and length
\* end - start, made with no allocation and no copy; after an element write,
\* a set or a fill through the subarray at index j, v reads the written value
\* at index start + j, and a write through v is read through the subarray.
C5_SubarrayAliases ==
  [][/\ \A i \in 1..Len(views), begin \in IndexArgs, end \in IndexArgs :
          LET v == views[i]
              b == ArgOr(begin, 0) * BPE(v)
              e == IF end = Omitted THEN v.byteLength ELSE Only(end) * BPE(v)
          IN  (/\ Did("subarray", i)
               /\ 0 <= b /\ b <= e /\ e <= v.byteLength
               /\ Subarray(i, begin, end)) =>
                /\ views'[Len(views')].buffer = v.buffer
                /\ views'[Len(views')].dtype = v.dtype
                /\ views'[Len(views')].byteOffset = v.byteOffset + b
                /\ views'[Len(views')].byteLength = e - b
                /\ last'.allocs = <<>> /\ last'.copies = <<>> /\ last'.slices = <<>>
                /\ mem' = mem
     /\ \A i \in 1..Len(views), j \in 1..Len(views) :
          \A b \in Steps(i), e \in Steps(i) :
            IsSubarray(j, i, b, e) =>
              \A p \in 0..MaxLen :
                LET q == p + b \div BPE(views[i])
                IN  InRange(views[j], p) =>
                      /\ \A value \in Values, f \in AllOutcomes :
                           (/\ Did("put", j)
                            /\ Representable(views[j].dtype, value)
                            /\ Put(j, p, value, f))
                             => ElementAt(mem', views'[i], q) = Num(value)
                      /\ \A value \in Values, f \in AllOutcomes :
                           (/\ Did("put", i)
                            /\ Representable(views[i].dtype, value)
                            /\ Put(i, q, value, f))
                             => ElementAt(mem', views'[j], p) = Num(value)
                      /\ \A xs \in HostSeqs \ {<<>>}, f \in AllOutcomes :
                           (/\ Did("set", j)
                            /\ AllRepresentable(views[j].dtype, xs)
                            /\ Set(j, IterableSource(xs), Arg(p), f))
                             => ElementAt(mem', views'[i], q) = Num(xs[1])
                      /\ \A value \in Values, f \in AllOutcomes :
                           (/\ Did("fill", j)
                            /\ Representable(views[j].dtype, value)
                            /\ Fill(j, value, Arg(p), Omitted, f))
                             => ElementAt(mem', views'[i], q) = Num(value)]_vars

\* C6: v.slice(start, end) asks the handle for exactly the bytes
\* [byteOffset + s * elementSize, byteOffset + e * elementSize) for the
\* clamped s and e, and returns a view of v's dtype with byteOffset 0 and
\* length e - s whose toArray() equals v.toArray().slice(start, end).
C6_SliceCopiesWindow ==
  [][\A i \in 1..Len(views), start \in IndexArgs, end \in IndexArgs :
       (Did("slice", i) /\ Slice(i, start, end)) =>
         LET v == views[i]
             w == clampSliceArgs(v.byteLength, Scaled(start, BPE(v)), Scaled(end, BPE(v)))
             r == views'[Len(views')]
         IN  /\ last'.slices = <<[h |-> v.buffer, begin |-> v.byteOffset + w[1],
                                  end |-> v.byteOffset + w[2]]>>
             /\ r.dtype = v.dtype
             /\ r.byteOffset = 0
             /\ r.byteLength = w[2] - w[1]
             /\ Elements(mem', r) =
                  SubSeq(Elements(mem, v), w[1] \div BPE(v) + 1, w[2] \div BPE(v))]_vars

\* C7: after v.fill(x, s, e), v.toArray() is the array before the call with
\* x at every index of the clamped window [s, e); no byte of the handle
\* outside v's bytes changes, and fill returns v.
C7_FillFrame ==
  [][\A i \in 1..Len(views), value \in Values, start \in IndexArgs, end \in IndexArgs :
       \A f \in AllOutcomes :
         (/\ Did("fill", i)
          /\ Representable(views[i].dtype, value)
          /\ Fill(i, value, start, end, f)) =>
           LET v      == views[i]
               w      == clampSliceArgs(v.byteLength, Scaled(start, BPE(v)),
                                        Scaled(end, BPE(v)))
               before == Elements(mem, v)
               old    == mem[v.buffer].bytes
               new    == mem'[v.buffer].bytes
           IN  /\ last'.result = [this |-> i]
               /\ Elements(mem', v) =
                    [k \in 1..Len(before) |->
                       IF (k - 1) * BPE(v) >= w[1] /\ (k - 1) * BPE(v) < w[2]
                       THEN Num(value) ELSE before[k]]
               /\ \A k \in 1..Len(old) :
                    (k <= v.byteOffset \/ k > v.byteOffset + v.byteLength)
                      => new[k] = old[k]
               /\ \A h \in 1..Len(mem) : h # v.buffer => mem'[h] = mem[h]]_vars

\* C8: element access out of range is inert.  For an index i < 0 or
\* i >= length, reading v[i] gives undefined, and writing v[i] = x raises
\* nothing, makes no copy and changes neither the handle's bytes nor anything
\* of the view: a later read of v[i] still gives undefined.
C8_OutOfRangeInert ==
  [][\A i \in 1..Len(views), p \in Indices :
       ~(p > -1 /\ p * BPE(views[i]) < views[i].byteLength) =>
         /\ \A f \in AllOutcomes :
              (Did("get", i) /\ Get(i, p, f)) =>
                /\ last'.result = Undefined
                /\ last'.copies = <<>>
                /\ mem' = mem
         /\ \A value \in Values, f \in AllOutcomes :
              (Did("put", i) /\ Put(i, p, value, f)) =>
                /\ last'.error = "none"
                /\ last'.copies = <<>>
                /\ mem' = mem
                /\ views' = views
                /\ ElementAt(mem', views'[i], p) = Undefined]_vars

\* C9: for 0 <= i < v.length, a read or a write of v[i] makes exactly one
\* copy, of elementSize bytes at byte byteOffset + i * elementSize of the
\* handle; after v[i] = x, x a value of the dtype, v[i] reads x, and every
\* other element of v and every byte of the handle outside the element is as
\* it was.
C9_ElementAccess ==
  [][\A i \in 1..Len(views), p \in 0..MaxLen :
       (p * BPE(views[i]) < views[i].byteLength) =>
         LET v   == views[i]
             at  == v.byteOffset + p * BPE(v)
             old == mem[v.buffer].bytes
             new == mem'[v.buffer].bytes
         IN  /\ \A f \in AllOutcomes :
                  (Did("get", i) /\ p \notin DOMAIN v.own /\ Get(i, p, f)) =>
                    last'.copies = <<CopyCall(HostPtr, DevPtr(v.buffer, at), BPE(v))>>
             /\ \A value \in Values, f \in AllOutcomes :
                  (Did("put", i) /\ Representable(v.dtype, value) /\ Put(i, p, value, f)) =>
                    /\ last'.copies = <<CopyCall(DevPtr(v.buffer, at), HostPtr, BPE(v))>>
                    /\ ElementAt(mem', views'[i], p) = Num(value)
                    /\ \A q \in 0..MaxLen :
                         (q # p /\ InRange(v, q)) =>
                           ElementAt(mem', views'[i], q) = ElementAt(mem, v, q)
                    /\ \A k \in 1..Len(old) :
                         (k <= at \/ k > at + BPE(v)) => new[k] = old[k]]_vars

\* C10: after each resize(k) of a device buffer, byteLength is k, the buffer
\* is empty exactly when byteLength is 0, capacity >= byteLength, and
\* capacity has not decreased: shrinking leaves it as it was, growing past it
\* makes it the new size, so that it is the largest size ever asked for.
C10_ResizeCapacity ==
  [][\A k \in 0..MaxBytes, g \in Garbage :
       Resize(k, g) =>
         /\ byteLengthOf(mem', 1) = k
         /\ (isEmpty(mem', 1) <=> k = 0)
         /\ capacityOf(mem', 1) >= byteLengthOf(mem', 1)
         /\ capacityOf(mem', 1) >= capacityOf(mem, 1)
         /\ (k <= capacityOf(mem, 1) => capacityOf(mem', 1) = capacityOf(mem, 1))
         /\ (k > capacityOf(mem, 1) => capacityOf(mem', 1) = k)
         /\ capacityOf(mem', 1) = last'.result.largest]_vars

\* a buffer was grown and then resized to nothing, keeping its capacity
C10_Witness ==
  /\ last.op = "resize"
  /\ last.result.requested = 0
  /\ last.result.largest = MaxBytes
  /\ byteLengthOf(mem, 1) = 0
  /\ capacityOf(mem, 1) = MaxBytes
\* the bytes a host source holds once converted to dtype dt
SourceBytes(dt, source) ==
  IF source.kind \in {"iterable", "arrayLike"} THEN Len(source.values) * BYTES_PER_ELEMENT(dt)
  ELSE Len(source.bytes)

\* C11: allocator replacement.  setDefaultAllocator(f) installs f and touches
\* no view and no handle.  From then on every fresh allocation of a
\* construction path (a numeric length, a host ArrayBuffer, typed array,
\* iterable or array-like, the unknown-source fallback, the temporary view
\* of set and of fill) is one call of f, and of nothing else, for the
\* requested number of bytes, and the new view uses the handle f returned;
\* the views and handles that existed keep their handle, byteOffset, length
\* and contents; a construction wrapping an existing handle or view makes no
\* allocator call.
C11_AllocatorReplaced ==
  [][/\ \A f \in Allocators :
          SetDefaultAllocator(f) => allocator' = f /\ views' = views /\ mem' = mem
     /\ last'.op \in {"new(length)", "new(host)", "new(unknown)"} =>
          LET v == views'[Len(views')]
          IN  /\ last'.allocs = <<[by |-> allocator, byteLength |-> v.byteLength]>>
              /\ Len(mem') = Len(mem) + 1
              /\ v.buffer = Len(mem')
              /\ mem'[v.buffer].kind = allocator
              /\ byteLengthOf(mem', v.buffer) = v.byteLength
              /\ SubSeq(views', 1, Len(views)) = views
              /\ SubSeq(mem', 1, Len(mem)) = mem
     /\ last'.op = "new(length)" =>
          \A dt \in AllocDtypes, n \in 0..MaxLen, g \in Garbage :
            NewLength(dt, n, g) =>
              last'.allocs[1].byteLength = n * BYTES_PER_ELEMENT(dt)
     /\ last'.op = "new(host)" =>
          \A dt \in AllocDtypes : \A source \in HostSourcesOf(dt, {1}) :
            NewHost(dt, source) => last'.allocs[1].byteLength = SourceBytes(dt, source)
     /\ last'.op = "new(unknown)" => last'.allocs[1].byteLength = 0
     /\ last'.op \in {"set", "fill"} => views' = views /\ Len(mem') = Len(mem)
     /\ last'.op = "set" =>
          \A i \in {last'.view}, start \in AllocStarts :
            \A array \in AllocSources(views[i].dtype) :
              (last'.allocs #
                 IF array.kind = "view" THEN <<>>
                 ELSE <<[by |-> allocator,
                         byteLength |-> SourceBytes(views[i].dtype, array)]>>) =>
                \A f \in Outcomes(setOf(i, array, start, Defined)) :
                  ~Set(i, array, start, f)
     /\ last'.op = "fill" =>
          \A i \in {last'.view}, start \in AllocStarts, end \in AllocStarts :
            (last'.allocs #
               <<[by |-> allocator,
                  byteLength |-> clampSliceArgs(views[i].byteLength, Scaled(start, BPE(views[i])),
                                                Scaled(end, BPE(views[i])))[2]
                                 - clampSliceArgs(views[i].byteLength,
                                                  Scaled(start, BPE(views[i])),
                                                  Scaled(end, BPE(views[i])))[1]]>>) =>
              \A f \in Outcomes(fillOf(i, 1, start, end, Defined)) :
                ~Fill(i, 1, start, end, f)
     /\ last'.op \in {"new(view)", "new(memory)", "new(memory,byteOffset,length)",
                      "new(object)"} =>
          /\ last'.allocs = <<>>
          /\ SubSeq(views', 1, Len(views)) = views
          /\ SubSeq(mem', 1, Len(mem)) = mem]_vars

\* a view made under the default allocator was filled after the allocator was
\* replaced: the temporary view of fill came from the replacement
C11_Witness ==
  /\ allocator = "ManagedMemory"
  /\ last.op = "fill"
  /\ Len(last.allocs) = 1
  /\ last.allocs[1].by = "ManagedMemory"
  /\ last.allocs[1].byteLength > 0
  /\ mem[views[1].buffer].kind = "DeviceMemory"

\* C12: unsupported sources.  A constructor handed a source of no supported
\* shape (no argument, undefined, null, a non-iterable primitive, an object
\* of no known shape) raises nothing and returns a view of length 0,
\* byteLength 0 and byteOffset 0 over a handle that one allocator call for 0
\* bytes returned.
C12_UnsupportedSourceFallsBack ==
  [][last'.op \in {"new()", "new(unknown)"} =>
       /\ last'.error = "none"
       /\ last'.allocs = <<[by |-> allocator, byteLength |-> 0]>>
       /\ Len(views') = Len(views) + 1
       /\ Len(mem') = Len(mem) + 1
       /\ views'[Len(views')].buffer = Len(mem')
       /\ views'[Len(views')].byteLength = 0
       /\ views'[Len(views')].byteOffset = 0
       /\ byteLengthOf(mem', Len(mem')) = 0]_vars

\* the number the claim gives an argument: 0 for a negative one and for one
\* that is no number
Given(a) == IF a = NaN THEN 0 ELSE IF Only(a) < 0 THEN 0 ELSE Only(a)

\* C13: new View(handle, byteOffset, length) on an existing handle calls
\* neither the allocator nor the copy primitive, raises nothing, and yields
\* a view of that handle with the given byteOffset and length and
\* byteLength = length * elementSize, a negative or non-numeric byteOffset or
\* length counting as 0.
C13_RangeConstructor ==
  [][last'.op = "new(memory,byteOffset,length)" =>
       \A dt \in {views'[Len(views')].dtype}, h \in {views'[Len(views')].buffer},
          byteOffset \in NumberArgs(-1..MaxLen), length \in NumberArgs(-1..(MaxLen + 1)) :
         NewRange(dt, h, Scaled(byteOffset, BYTES_PER_ELEMENT(dt)), length) =>
           /\ last'.error = "none"
           /\ last'.allocs = <<>>
           /\ last'.copies = <<>>
           /\ mem' = mem
           /\ Len(views') = Len(views) + 1
           /\ views'[Len(views')].buffer = h
           /\ views'[Len(views')].byteOffset = Given(byteOffset) * BYTES_PER_ELEMENT(dt)
           /\ views'[Len(views')].byteLength = Given(length) * BYTES_PER_ELEMENT(dt)]_vars

\* a view of one element or more was made at a byteOffset above 0 of a
\* handle another view has
C13_Witness ==
  /\ last.op = "new(memory,byteOffset,length)"
  /\ Returned.byteOffset > 0
  /\ Returned.byteLength > 0
  /\ \E j \in 1..(Len(views) - 1) : views[j].buffer = Returned.buffer

\* C14: new View(source), whichever branch the source takes, gives a view
\* with byteOffset 0 and length = byteLength / elementSize, byteLength being
\* the byte length of the source.
C14_OneArgumentFrame ==
  [][/\ last'.op \in {"new(length)", "new(host)", "new(unknown)", "new(view)", "new(memory)",
                      "new(object)"} =>
          /\ last'.error = "none"
          /\ Len(views') = Len(views) + 1
          /\ views'[Len(views')].byteOffset = 0
     /\ last'.op = "new(length)" =>
          \A dt \in AllocDtypes, n \in 0..MaxLen, g \in Garbage :
            NewLength(dt, n, g) =>
              views'[Len(views')].byteLength = n * BYTES_PER_ELEMENT(dt)
     /\ last'.op = "new(host)" =>
          \A dt \in AllocDtypes : \A source \in HostSourcesOf(dt, {1}) :
            NewHost(dt, source) => views'[Len(views')].byteLength = SourceBytes(dt, source)
     /\ last'.op = "new(unknown)" => views'[Len(views')].byteLength = 0
     /\ last'.op = "new(view)" => views'[Len(views')].byteLength = views[last'.view].byteLength
     /\ last'.op = "new(memory)" =>
          \A dt \in AllocDtypes, h \in 1..Len(mem) :
            NewMemory(dt, h) => views'[Len(views')].byteLength = byteLengthOf(mem, h)
     /\ last'.op = "new(object)" =>
          \A dt \in AllocDtypes, h \in 1..Len(mem), byteOffset \in 0..1, length \in 0..1 :
            NewObject(dt, h, byteOffset * BYTES_PER_ELEMENT(dt),
                      length * BYTES_PER_ELEMENT(dt)) =>
              views'[Len(views')].byteLength = length * BYTES_PER_ELEMENT(dt)]_vars

\* Array.prototype.slice(a, b) of a host array: a negative index counts from
\* the end, both are clamped into the array, an omitted one is its end
ArraySlice(xs, a, b) ==
  LET k == IF a = Omitted THEN 0
           ELSE IF Only(a) < 0 THEN Max(Len(xs) + Only(a), 0) ELSE Min(Only(a), Len(xs))
      e == IF b = Omitted THEN Len(xs)
           ELSE IF Only(b) < 0 THEN Max(Len(xs) + Only(b), 0) ELSE Min(Only(b), Len(xs))
  IN  SubSeq(xs, k + 1, e)

\* C15: host materialisation honours the window.  toArray() raises nothing,
\* returns exactly length elements and leaves the device bytes alone, and
\* v.subarray(a, b).toArray() equals v.toArray().slice(a, b) for all a, b.
C15_ToArrayWindow ==
  [][/\ last'.op = "toArray" =>
          /\ last'.error = "none"
          /\ mem' = mem
          /\ Len(last'.result.array) = views[last'.view].byteLength
     /\ last'.op = "subarray" =>
          \A i \in {last'.view}, begin \in IndexArgs, end \in IndexArgs :
            Subarray(i, begin, end) =>
              \A f \in AllOutcomes :
                /\ ~toArray(mem', views'[Len(views')], f.g, f.ub).error
                /\ HostElements(views[i].dtype,
                                toArray(mem', views'[Len(views')], f.g, f.ub).out)
                     = ArraySlice(HostElements(views[i].dtype,
                                               toArray(mem, views[i], f.g, f.ub).out),
                                  begin, end)]_vars

\* the window [s, e) of start a and end b on n elements: a negative value
\* counts from n, both are clamped into [0, n], an omitted end is n, an
\* omitted start 0, and a start past the end gives the empty window at start
Window(n, a, b) ==
  LET s0 == IF a = Omitted THEN 0 ELSE IF Only(a) < 0 THEN n + Only(a) ELSE Only(a)
      e0 == IF b = Omitted THEN n ELSE IF Only(b) < 0 THEN n + Only(b) ELSE Only(b)
      s  == IF s0 < 0 THEN 0 ELSE IF s0 > n THEN n ELSE s0
      e  == IF e0 < 0 THEN 0 ELSE IF e0 > n THEN n ELSE e0
  IN  IF s > e THEN <<s, s>> ELSE <<s, e>>

\* a handle of ten bytes and the Uint8 view of all of it
TenBytes == <<[kind |-> "DeviceMemory"] @@ Handle(<<1, 2, 3, 4, 5, 6, 7, 8, 9, 10>>)>>

TenView ==
  [buffer |-> 1, byteOffset |-> 0, byteLength |-> 10, dtype |-> "Uint8Array", own |-> NoOwn]

\* C16: clamping.  For a view of n elements and any start and end (negative,
\* omitted, past the end) subarray, slice and fill act on the window [s, e)
\* in which a negative value counts from n, values are clamped into [0, n]
\* and an omitted end is n, so that 0 <= s <= e <= n: subarray gives the view
\* at byteOffset + s * elementSize of e - s elements, slice asks the handle
\* for the bytes of [s, e), fill writes e - s elements at s.  slice(-1) is
\* slice(n - 1, n), and on ten elements slice(-3) is slice(7, 10).
C16_Clamping ==
  [][/\ last'.op = "subarray" =>
          \A i \in {last'.view}, begin \in IndexArgs, end \in IndexArgs :
            Subarray(i, begin, end) =>
              LET v == views[i]
                  w == Window(v.byteLength \div BPE(v), begin, end)
              IN  /\ 0 <= w[1] /\ w[1] <= w[2] /\ w[2] * BPE(v) <= v.byteLength
                  /\ views'[Len(views')].buffer = v.buffer
                  /\ views'[Len(views')].byteOffset = v.byteOffset + w[1] * BPE(v)
                  /\ views'[Len(views')].byteLength = (w[2] - w[1]) * BPE(v)
     /\ last'.op = "slice" =>
          \A i \in {last'.view}, start \in IndexArgs, end \in IndexArgs :
            Slice(i, start, end) =>
              LET v == views[i]
                  w == Window(v.byteLength \div BPE(v), start, end)
              IN  /\ 0 <= w[1] /\ w[1] <= w[2] /\ w[2] * BPE(v) <= v.byteLength
                  /\ last'.slices = <<[h     |-> v.buffer,
                                       begin |-> v.byteOffset + w[1] * BPE(v),
                                       end   |-> v.byteOffset + w[2] * BPE(v)]>>
     /\ last'.op = "slice" =>
          /\ LET v == views[last'.view]
             IN  v.byteLength >= BPE(v) =>
                   slice(mem, v, Arg(-BPE(v)), Omitted)
                     = slice(mem, v, Arg(v.byteLength - BPE(v)), Arg(v.byteLength))
          /\ slice(TenBytes, TenView, Arg(-3), Omitted) = slice(TenBytes, TenView, Arg(7), Arg(10))
          /\ Len(slice(TenBytes, TenView, Arg(-3), Omitted).mem[2].bytes) = 3
     /\ last'.op = "fill" =>
          \A i \in {last'.view}, start \in IndexArgs, end \in IndexArgs :
            \A f \in Outcomes(fillOf(i, 1, start, end, Defined)) :
              Fill(i, 1, start, end, f) =>
                LET v == views[i]
                    w == Window(v.byteLength \div BPE(v), start, end)
                IN  /\ 0 <= w[1] /\ w[1] <= w[2] /\ w[2] * BPE(v) <= v.byteLength
                    /\ last'.allocs = <<[by |-> allocator,
                                         byteLength |-> (w[2] - w[1]) * BPE(v)]>>
                    /\ last'.copies[Len(last'.copies)] =
                         CopyCall(DevPtr(v.buffer, v.byteOffset + w[1] * BPE(v)),
                                  DevPtr(0, 0), (w[2] - w[1]) * BPE(v))]_vars

\* the first view has two elements and a subarray or a slice of it, as a
\* start of -1 gives, is its last element
C16_Witness ==
  /\ Len(views) >= 2
  /\ views[1].byteLength = 2 * BPE(views[1])
  /\ \/ /\ last.op = "subarray"
        /\ last.view = 1
        /\ Returned.byteOffset = views[1].byteOffset + BPE(views[1])
        /\ Returned.byteLength = BPE(views[1])
     \/ /\ last.op = "slice"
        /\ last.view = 1
        /\ last.slices[1].begin = views[1].byteOffset + BPE(views[1])
        /\ last.slices[1].end = views[1].byteOffset + 2 * BPE(views[1])

\* C17: getIpcHandle() on a view of a DeviceMemory returns the descriptor of
\* that handle and the view's byteOffset; on a view of any other kind of
\* memory it raises an error and returns no descriptor; either way the view
\* and the memory are as before.
C17_IpcHandle ==
  [][\A i \in 1..Len(views) :
       (Did("getIpcHandle", i) /\ GetIpcHandle(i)) =>
         /\ views' = views
         /\ mem' = mem
         /\ IF mem[views[i].buffer].kind = "DeviceMemory"
            THEN /\ last'.error = "none"
                 /\ last'.result = [ipc |-> [buffer     |-> views[i].buffer,
                                            byteOffset |-> views[i].byteOffset]]
            ELSE /\ last'.error = "Error"
                 /\ last'.result = [thrown |-> TRUE]]_vars

\* getIpcHandle raised on a view whose handle a replaced allocator made
C17_Witness ==
  /\ last.op = "getIpcHandle"
  /\ last.error = "Error"
  /\ mem[views[last.view].buffer].kind = "ManagedMemory"
  /\ allocator = "ManagedMemory"

\* C18: copyInto(target, start) by target.  A view target: exactly
\* target.set(this, start).  A host ArrayBuffer: one copy of
\* min(this.byteLength, target.byteLength) bytes from the start of this view.
\* A host typed array: one copy from this view at the clamped start s of at
\* most min((length - s) * elementSize, target.byteLength) bytes, so that no
\* byte past byteOffset + byteLength of this view is read.
C18_CopyIntoDispatch ==
  [][last'.op = "copyInto" =>
       \A i \in {last'.view}, start \in IndexArgs :
         \A target \in CopyTargets(views[i].dtype) :
           \A f \in Outcomes(copyIntoOf(i, target, start, Defined)) :
             CopyInto(i, target, start, f) =>
               LET v == views[i]
                   s == Window(v.byteLength \div BPE(v), start, Omitted)[1] * BPE(v)
               IN  CASE target.kind = "view" ->
                          /\ mem' = set(mem, target.view, ViewSource(v),
                                        Scaled(start, BPE(v)), f.g, f.ub).mem
                          /\ last'.copies = set(mem, target.view, ViewSource(v),
                                                Scaled(start, BPE(v)), f.g, f.ub).copies
                     [] target.kind = "ArrayBuffer" ->
                          /\ mem' = mem
                          /\ last'.copies =
                               <<CopyCall(HostPtr, DevPtr(v.buffer, v.byteOffset),
                                          Min(v.byteLength, Len(target.bytes)))>>
                     [] target.kind = "TypedArray" ->
                          /\ mem' = mem
                          /\ Len(last'.copies) = 1
                          /\ last'.copies[1].src = DevPtr(v.buffer, v.byteOffset + s)
                          /\ last'.copies[1].n <= Min(v.byteLength - s, Len(target.bytes))
                          /\ v.byteOffset + s + last'.copies[1].n
                               <= v.byteOffset + v.byteLength]_vars

\* C19: coercion inside set.  A source that is a view is used as it is: no
\* allocation, no handle slice, one copy from the source's own handle.  Any
\* other source becomes, for each of the eleven dtype tags, a view of the
\* destination's dtype and element size.  For a dtype tag outside the eleven
\* set raises 'Unknown dtype' before any copy and the destination is as
\* before.
C19_CoerceByDtype ==
  [][last'.op = "set" =>
       \A i \in {last'.view}, start \in AllocStarts :
         \A array \in AllocSources(views[i].dtype) :
           \A f \in Outcomes(setOf(i, array, start, Defined)) :
             Set(i, array, start, f) =>
               LET dt == views[i].dtype
               IN  IF array.kind = "view"
                   THEN /\ last'.error # "Unknown dtype"
                        /\ last'.allocs = <<>>
                        /\ last'.slices = <<>>
                        /\ Len(last'.copies) = 1
                        /\ last'.copies[1].src
                             = DevPtr(array.view.buffer, array.view.byteOffset)
                        /\ asMemoryView(mem, array, dt, 0).view = array.view
                   ELSE IF dt \in DtypeTags
                   THEN /\ last'.error # "Unknown dtype"
                        /\ asMemoryView(mem, array, dt, 0).view.dtype = dt
                        /\ BPE(asMemoryView(mem, array, dt, 0).view) = BPE(views[i])
                        /\ asMemoryView(mem, array, dt, 0).view.byteLength
                             = SourceBytes(dt, array)
                        /\ last'.allocs = <<[by |-> allocator,
                                             byteLength |-> SourceBytes(dt, array)]>>
                        /\ Len(last'.copies) = 2
                   ELSE /\ last'.error = "Unknown dtype"
                        /\ last'.copies = <<>>
                        /\ last'.allocs = <<>>
                        /\ mem' = mem
                        /\ views' = views]_vars

\* set raised 'Unknown dtype' on a view of one element or more whose typed
\* array is none of the eleven
C19_Witness ==
  /\ last.op = "set"
  /\ last.error = "Unknown dtype"
  /\ views[last.view].dtype = ForeignTag
  /\ views[last.view].byteLength > 0

\* C20: new View(V), for any view V, asks V's handle for exactly the bytes
\* [V.byteOffset, V.byteOffset + V.byteLength), calls no allocator and makes
\* no copy, and yields a view with byteOffset 0 and byteLength V.byteLength
\* that the returned handle backs in full; its toArray() equals V.toArray().
C20_ViewOfView ==
  [][\A i \in 1..Len(views) :
       (Did("new(view)", i) /\ NewView(views[i].dtype, i)) =>
         /\ last'.error = "none"
         /\ last'.slices = <<[h     |-> views[i].buffer,
                              begin |-> views[i].byteOffset,
                              end   |-> views[i].byteOffset + views[i].byteLength]>>
         /\ last'.allocs = <<>>
         /\ last'.copies = <<>>
         /\ views'[Len(views')].byteOffset = 0
         /\ views'[Len(views')].byteLength = views[i].byteLength
         /\ views'[Len(views')].byteLength <= byteLengthOf(mem', views'[Len(views')].buffer)
         /\ Elements(mem', views'[Len(views')]) = Elements(mem, views[i])]_vars

\* C21: the dtype of a view is fixed.  Whatever call is made, every view the
\* program holds keeps its typed array and its element size, and the view
\* that slice or subarray returns has the typed array and the element size
\* of the receiver.
C21_DtypeFixed ==
  [][/\ \A i \in 1..Len(views) :
          /\ views'[i].dtype = views[i].dtype
          /\ BPE(views'[i]) = BPE(views[i])
     /\ (last'.op \in {"slice", "subarray"} /\ last'.error = "none") =>
          /\ Len(views') = Len(views) + 1
          /\ views'[Len(views')].dtype = views[last'.view].dtype
          /\ BPE(views'[Len(views')]) = BPE(views[last'.view])
     /\ last'.op = "toArray" /\ last'.error = "none" =>
          last'.result.dtype = views[last'.view].dtype]_vars

\* a view of 16-bit elements was written through an index, and a slice of
\* it was then taken: both have 16-bit elements
C21_Witness ==
  /\ last.op = "slice"
  /\ Len(views) = 2
  /\ last.view = 1
  /\ views[1].dtype = "Int16Array"
  /\ views[1].own # NoOwn
  /\ Returned.dtype = "Int16Array"

\* C22: an indexed read v[p] or write v[p] = x leaves the byteOffset and the
\* byteLength (so the length) of every view as they were, whether the copy
\* succeeded or raised.
C22_AccessRestoresFrame ==
  [][last'.op \in {"get", "put"} =>
       \A i \in 1..Len(views) :
         /\ views'[i].byteOffset = views[i].byteOffset
         /\ views'[i].byteLength = views[i].byteLength]_vars

\* C23: every view, however it was constructed or returned, has a whole,
\* non-negative number of elements: byteLength is a non-negative multiple of
\* the element size, length being byteLength / elementSize.
C23_WholeLength ==
  \A i \in 1..Len(views) :
    /\ views[i].byteLength >= 0
    /\ views[i].byteLength % BPE(views[i]) = 0

\* the columns of the object o have not all one length
Differing(o) == \E j, k \in 1..Len(o) : o[j].value.length # o[k].value.length

\* the columns of a have one common length, a's length is the number of its
\* names, and the index of names[k] is k
WellFormed(a) ==
  /\ ~Differing(a.data)
  /\ lengthOf(a) = Len(namesOf(a))
  /\ Len(columnsOf(a)) = Len(namesOf(a))
  /\ \A k \in 1..Len(namesOf(a)) : columnNameToColumnIndex(a, namesOf(a)[k]) = Num(k - 1)

\* the call threw 'Column lengths must all be the same' and made no accessor
LengthsRejected ==
  /\ last'.error = "Column lengths must all be the same"
  /\ accessors' = accessors

\* data holds a column whose length differs from that of another column of
\* data or of a column of a
AddsDiffering(a, data) ==
  \/ Differing(data)
  \/ \E k \in 1..Len(data), j \in 1..Len(a.data) :
       data[k].value.length # a.data[j].value.length

\* as AddsDiffering, counting of a's columns only those data does not replace
AddsDifferingKept(a, data) ==
  \/ Differing(data)
  \/ \E k \in 1..Len(data), j \in 1..Len(a.data) :
       /\ ~HasOwn(data, a.data[j].name)
       /\ data[k].value.length # a.data[j].value.length

\* C24 as stated: every accessor, after construction and any addColumns,
\* dropColumns and selectByColumnNames, holds columns of one common length,
\* its length is the number of its names and columnNameToColumnIndex(names[i])
\* is i; constructing an accessor of, or calling addColumns with, a column
\* whose length differs throws 'Column lengths must all be the same', makes
\* no accessor and leaves the receiver as it was.
C24_CommonLength ==
  [][/\ \A k \in 1..Len(accessors') : WellFormed(accessors'[k])
     /\ \A k \in 1..Len(accessors) : accessors'[k] = accessors[k]
     /\ (last'.op = "new ColumnAccessor" /\ Differing(last'.result.input)) =>
          LengthsRejected
     /\ (last'.op = "addColumns"
           /\ AddsDiffering(accessors[last'.view], last'.result.input)) =>
          LengthsRejected]_vars

\* C24, amended: as C24_CommonLength, but addColumns throws exactly when the
\* columns handed to it differ in length among themselves or from a column
\* of the receiver that they do not replace: a column replacing the
\* receiver's column of the same name need not have its length.  The
\* constructor throws exactly when its columns differ in length.
C24_CommonLengthOfMerged ==
  [][/\ \A k \in 1..Len(accessors') : WellFormed(accessors'[k])
     /\ \A k \in 1..Len(accessors) : accessors'[k] = accessors[k]
     /\ last'.op = "new ColumnAccessor" =>
          IF Differing(last'.result.input) THEN LengthsRejected
          ELSE /\ last'.error = "none"
               /\ Len(accessors') = Len(accessors) + 1
               /\ accessors'[Len(accessors')].data = last'.result.input
     /\ last'.op = "addColumns" =>
          IF AddsDifferingKept(accessors[last'.view], last'.result.input)
          THEN LengthsRejected
          ELSE /\ last'.error = "none"
               /\ Len(accessors') = Len(accessors) + 1
               /\ \A k \in 1..Len(last'.result.input) :
                    GetProp(accessors'[Len(accessors')].data, last'.result.input[k].name)
                      = last'.result.input[k].value]_vars

\* addColumns threw on an accessor of two columns when handed a column of
\* another length under the name of one of them
C24_Witness ==
  /\ last.op = "addColumns"
  /\ last.error = "Column lengths must all be the same"
  /\ Len(accessors[last.view].data) = 2
  /\ Len(last.result.input) = 1
  /\ HasOwn(accessors[last.view].data, last.result.input[1].name)

\* the list of names holds n
Listed(list, n) == \E k \in 1..Len(list) : list[k] = n

\* C25: a.dropColumns(D) returns a new accessor whose names are the names of
\* a that do not occur in D, in a's order, each bound to the column a binds
\* it to, whatever the names are and whatever else D lists; a is as before;
\* and a.get(n) throws 'Unknown column name' for every n that is no name of a.
C25_DropColumns ==
  [][/\ last'.op = "dropColumns" =>
          LET a    == accessors[last'.view]
              kept == SelectSeq(namesOf(a), LAMBDA n : ~Listed(last'.result.input, n))
          IN  /\ last'.error = "none"
              /\ Len(accessors') = Len(accessors) + 1
              /\ namesOf(accessors'[Len(accessors')]) = kept
              /\ \A k \in 1..Len(kept) :
                   columnsOf(accessors'[Len(accessors')])[k] = GetProp(a.data, kept[k])
              /\ accessors'[last'.view] = a
     /\ (last'.op = "accessor.get"
           /\ ~Listed(namesOf(accessors[last'.view]), last'.result.input)) =>
          last'.error = "Unknown column name"]_vars

====
